---- MODULE Spec2Model ----
(***************************************************************************)
(* Headers-sync state machine (src/headerssync.cpp) of bellscoinV3 and the *)
(* proof-of-work retargeting rules it calls (src/pow.cpp).                 *)
(*                                                                         *)
(* One HeadersSyncState instance serves one peer.  The object is the       *)
(* record `sync`; a ProcessNextHeaders call is followed through its loop   *)
(* one header at a time (pc, received_headers, pos, ret), so that the      *)
(* states inside a call are states of the model.                           *)
(*                                                                         *)
(* Scaling.  arith_uint256 is modelled with UintWidth = 24 bits instead of *)
(* 256 (all arithmetic wraps modulo 2^24); the compact encoding keeps its  *)
(* real layout (8-bit size, sign bit, 23-bit mantissa).  The commitment    *)
(* period, the redownload buffer size and the consensus parameters are     *)
(* scaled down so that every branch is reached within a few headers.       *)
(***************************************************************************)
EXTENDS Integers, Sequences, FiniteSets, TLC

(***************************************************************************)
(* Bounds of the model                                                     *)
(***************************************************************************)
\* headerssync.cpp:19 has 600; scaled
HEADER_COMMITMENT_PERIOD == 2
\* headerssync.cpp:23 has 12330; scaled
REDOWNLOAD_BUFFER_SIZE == 1
\* largest number of headers in one headers message
MaxBatch == 2
\* largest number of headers the peer delivers to one instance
MaxHeaders == 6
\* the value of m_max_commitments the instance is constructed with
MaxCommitmentsCap == 2
\* height of the local block chain_start
ChainStartHeight == 1

(***************************************************************************)
(* 256-bit unsigned arithmetic (scaled) and the compact encoding           *)
(***************************************************************************)
UintWidth == 8 * 3

RECURSIVE Pow2(_)
Pow2(n) == IF n = 0 THEN 1 ELSE 2 * Pow2(n - 1)

UintMod == Pow2(UintWidth)

Min(a, b) == IF a < b THEN a ELSE b
Max(a, b) == IF a > b THEN a ELSE b

\* C++ integer division truncates toward zero.
TruncDiv(a, b) == IF a >= 0 THEN a \div b ELSE -((-a) \div b)

\* number of bits of a non-negative integer (arith_uint256::bits)
RECURSIVE BitLen(_)
BitLen(x) == IF x = 0 THEN 0 ELSE 1 + BitLen(x \div 2)

\* arith_uint256::SetCompact: the decoded target, wrapped to the word width
SetCompact(nCompact) ==
    LET nSize == nCompact \div Pow2(24)
        nWord == nCompact % Pow2(23)
    IN  IF nSize <= 3
        THEN nWord \div Pow2(8 * (3 - nSize))
        ELSE (nWord * Pow2(8 * (nSize - 3))) % UintMod

\* the sign flag SetCompact reports
CompactNegative(nCompact) ==
    /\ nCompact % Pow2(23) # 0
    /\ (nCompact \div Pow2(23)) % 2 = 1

\* the overflow flag SetCompact reports (34, 33, 32 bytes for 256 bits)
CompactOverflow(nCompact) ==
    LET nSize == nCompact \div Pow2(24)
        nWord == nCompact % Pow2(23)
        bytes == UintWidth \div 8
    IN  /\ nWord # 0
        /\ \/ nSize > bytes + 2
           \/ (nWord > 255 /\ nSize > bytes + 1)
           \/ (nWord > 65535 /\ nSize > bytes)

\* arith_uint256::GetCompact of a non-negative target
GetCompact(target) ==
    LET nSize0 == (BitLen(target) + 7) \div 8
        nComp0 == IF nSize0 <= 3
                  THEN target * Pow2(8 * (3 - nSize0))
                  ELSE target \div Pow2(8 * (nSize0 - 3))
        carry  == (nComp0 \div Pow2(23)) % 2 = 1
        nComp  == IF carry THEN nComp0 \div 256 ELSE nComp0
        nSize  == IF carry THEN nSize0 + 1 ELSE nSize0
    IN  nComp + nSize * Pow2(24)

\* GetBlockProof: floor(2^width / (target + 1)), 0 for an invalid target
GetBlockProof(nBits) ==
    LET bnTarget == SetCompact(nBits)
    IN  IF CompactNegative(nBits) \/ CompactOverflow(nBits) \/ bnTarget = 0
        THEN 0
        ELSE ((UintMod - 1 - bnTarget) \div (bnTarget + 1)) + 1

(***************************************************************************)
(* Consensus parameters (scaled from the main network's)                   *)
(* The pow limit leaves room, in UintWidth bits, for a target times four   *)
(* target timespans, as the main network's does in 256 bits.               *)
(***************************************************************************)
\* std::nullopt of nPowAllowMinDifficultyBlocksAfterHeight
NoHeight == -1

ConsensusParams ==
    [ powLimit                      |-> Pow2(17) - 1,
      nPowAveragingWindow           |-> 2,
      nPowMaxAdjustDown             |-> 32,
      nPowMaxAdjustUp               |-> 16,
      nPostBlossomPowTargetSpacing  |-> 10,
      nPowTargetTimespan            |-> 20,
      nPowTargetSpacing             |-> 10,
      fPowAllowMinDifficultyBlocks  |-> FALSE,
      fPowNoRetargeting             |-> FALSE,
      nPowAllowMinDifficultyBlocksAfterHeight |-> NoHeight,
      nNewPowDiffHeight             |-> 1 ]

PoWTargetSpacing(params) == params.nPostBlossomPowTargetSpacing

AveragingWindowTimespan(params) ==
    params.nPowAveragingWindow * PoWTargetSpacing(params)

MinActualTimespan(params) ==
    (AveragingWindowTimespan(params) * (100 - params.nPowMaxAdjustUp)) \div 100

MaxActualTimespan(params) ==
    (AveragingWindowTimespan(params) * (100 + params.nPowMaxAdjustDown)) \div 100

DifficultyAdjustmentInterval(params) ==
    params.nPowTargetTimespan \div params.nPowTargetSpacing

(***************************************************************************)
(* pow.cpp                                                                 *)
(***************************************************************************)
\* a retarget that multiplies by the damped timespan before it divides by the
\* averaging timespan
CalculateNextWorkRequiredNew_MultiplyFirst(bnAvg, nLastBlockTime, nFirstBlockTime, params) ==
    LET averagingWindowTimespan == AveragingWindowTimespan(params)
        minActualTimespan == MinActualTimespan(params)
        maxActualTimespan == MaxActualTimespan(params)
        raw     == nLastBlockTime - nFirstBlockTime
        damped  == averagingWindowTimespan
                   + TruncDiv(raw - averagingWindowTimespan, 4)
        nActualTimespan ==
            IF damped < minActualTimespan THEN minActualTimespan
            ELSE IF damped > maxActualTimespan THEN maxActualTimespan
            ELSE damped
        bnNew0  == ((bnAvg * nActualTimespan) % UintMod) \div averagingWindowTimespan
        bnNew   == IF bnNew0 > params.powLimit THEN params.powLimit ELSE bnNew0
    IN  GetCompact(bnNew)

\* a retarget that does not limit its result to the pow limit
CalculateNextWorkRequiredNew_NoLimit(bnAvg, nLastBlockTime, nFirstBlockTime, params) ==
    LET averagingWindowTimespan == AveragingWindowTimespan(params)
        minActualTimespan == MinActualTimespan(params)
        maxActualTimespan == MaxActualTimespan(params)
        raw     == nLastBlockTime - nFirstBlockTime
        damped  == averagingWindowTimespan
                   + TruncDiv(raw - averagingWindowTimespan, 4)
        nActualTimespan ==
            IF damped < minActualTimespan THEN minActualTimespan
            ELSE IF damped > maxActualTimespan THEN maxActualTimespan
            ELSE damped
        bnNew0  == ((bnAvg \div averagingWindowTimespan) * nActualTimespan) % UintMod
    IN  GetCompact(bnNew0)

CalculateNextWorkRequiredNew(bnAvg, nLastBlockTime, nFirstBlockTime, params) ==
    LET averagingWindowTimespan == AveragingWindowTimespan(params)
        minActualTimespan == MinActualTimespan(params)
        maxActualTimespan == MaxActualTimespan(params)
        raw     == nLastBlockTime - nFirstBlockTime
        damped  == averagingWindowTimespan
                   + TruncDiv(raw - averagingWindowTimespan, 4)
        nActualTimespan ==
            IF damped < minActualTimespan THEN minActualTimespan
            ELSE IF damped > maxActualTimespan THEN maxActualTimespan
            ELSE damped
        bnNew0  == ((bnAvg \div averagingWindowTimespan) * nActualTimespan) % UintMod
        bnNew   == IF bnNew0 > params.powLimit THEN params.powLimit ELSE bnNew0
    IN  GetCompact(bnNew)

\* a proof-of-work check that does not look at the overflow flag
CheckProofOfWork_NoOverflowTest(hash, nBits, params) ==
    LET bnTarget == SetCompact(nBits)
    IN  IF CompactNegative(nBits) \/ bnTarget = 0 \/ bnTarget > params.powLimit
        THEN FALSE
        ELSE IF hash > bnTarget THEN FALSE
        ELSE TRUE

\* CheckProofOfWork(hash, nBits, params); hash is UintToArith256(hash)
CheckProofOfWork(hash, nBits, params) ==
    LET bnTarget == SetCompact(nBits)
    IN  IF \/ CompactNegative(nBits) \/ bnTarget = 0
           \/ CompactOverflow(nBits) \/ bnTarget > params.powLimit
        THEN FALSE
        ELSE IF hash > bnTarget THEN FALSE
        ELSE TRUE

\* CheckProofOfWorkTests(hash, nBits, params, wtf)
CheckProofOfWorkTests(hash, nBits, params, wtf) ==
    LET bnTarget == SetCompact(nBits)
    IN  IF \/ CompactNegative(nBits) \/ bnTarget = 0
           \/ CompactOverflow(nBits) \/ bnTarget > params.powLimit
        THEN FALSE
        ELSE IF hash > bnTarget THEN FALSE
        ELSE TRUE

\* a legacy retarget with the clamp of the heights above 10000 at every height
CalculateNextWorkRequiredOld_OneClamp(pindexLast, nFirstBlockTime, params) ==
    LET retargetTimespan == params.nPowTargetTimespan
        nActualTimespan == pindexLast.nTime - nFirstBlockTime
        nMinTimespan == retargetTimespan \div 4
        nMaxTimespan == retargetTimespan * 4
        nModulatedTimespan ==
            IF nActualTimespan < nMinTimespan THEN nMinTimespan
            ELSE IF nActualTimespan > nMaxTimespan THEN nMaxTimespan
            ELSE nActualTimespan
        bnNew0 == ((SetCompact(pindexLast.nBits) * nModulatedTimespan) % UintMod)
                  \div retargetTimespan
        bnNew  == IF bnNew0 > params.powLimit THEN params.powLimit ELSE bnNew0
    IN  GetCompact(bnNew)

\* CalculateNextWorkRequiredOld(pindexLast, nFirstBlockTime, params); of
\* pindexLast its nHeight, nTime and nBits
CalculateNextWorkRequiredOld(pindexLast, nFirstBlockTime, params) ==
    LET nHeight == pindexLast.nHeight + 1
        retargetTimespan == params.nPowTargetTimespan
        nActualTimespan == pindexLast.nTime - nFirstBlockTime
        nMinTimespan == IF nHeight > 10000 THEN retargetTimespan \div 4
                        ELSE IF nHeight > 5000 THEN retargetTimespan \div 8
                        ELSE retargetTimespan \div 16
        nMaxTimespan == retargetTimespan * 4
        nModulatedTimespan ==
            IF nActualTimespan < nMinTimespan THEN nMinTimespan
            ELSE IF nActualTimespan > nMaxTimespan THEN nMaxTimespan
            ELSE nActualTimespan
        bnNew0 == ((SetCompact(pindexLast.nBits) * nModulatedTimespan) % UintMod)
                  \div retargetTimespan
        bnNew  == IF bnNew0 > params.powLimit THEN params.powLimit ELSE bnNew0
    IN  GetCompact(bnNew)

\* a transition check that returns, off a boundary, what its log line says
PermittedDifficultyTransition_AsLogged(params, height, old_nbits, new_nbits) ==
    IF params.fPowAllowMinDifficultyBlocks THEN TRUE
    ELSE IF height % DifficultyAdjustmentInterval(params) = 0
    THEN LET smallest_timespan == params.nPowTargetTimespan \div 4
             largest_timespan  == params.nPowTargetTimespan * 4
             observed_new_target == SetCompact(new_nbits)
             largest0  == ((SetCompact(old_nbits) * largest_timespan) % UintMod)
                          \div params.nPowTargetTimespan
             largest   == Min(largest0, params.powLimit)
             maximum_new_target == SetCompact(GetCompact(largest))
             smallest0 == ((SetCompact(old_nbits) * smallest_timespan) % UintMod)
                          \div params.nPowTargetTimespan
             smallest  == Min(smallest0, params.powLimit)
             minimum_new_target == SetCompact(GetCompact(smallest))
         IN  /\ ~(maximum_new_target < observed_new_target)
             /\ ~(minimum_new_target > observed_new_target)
    ELSE TRUE

PermittedDifficultyTransition(params, height, old_nbits, new_nbits) ==
    IF params.fPowAllowMinDifficultyBlocks THEN TRUE
    ELSE IF height % DifficultyAdjustmentInterval(params) = 0
    THEN LET smallest_timespan == params.nPowTargetTimespan \div 4
             largest_timespan  == params.nPowTargetTimespan * 4
             observed_new_target == SetCompact(new_nbits)
             largest0  == ((SetCompact(old_nbits) * largest_timespan) % UintMod)
                          \div params.nPowTargetTimespan
             largest   == Min(largest0, params.powLimit)
             maximum_new_target == SetCompact(GetCompact(largest))
             smallest0 == ((SetCompact(old_nbits) * smallest_timespan) % UintMod)
                          \div params.nPowTargetTimespan
             smallest  == Min(smallest0, params.powLimit)
             minimum_new_target == SetCompact(GetCompact(smallest))
         IN  /\ ~(maximum_new_target < observed_new_target)
             /\ ~(minimum_new_target > observed_new_target)
    ELSE old_nbits = new_nbits

(***************************************************************************)
(* Headers and hashes                                                      *)
(*                                                                         *)
(* A hash is the sequence of the hashed fields, so that GetHash is         *)
(* injective (collision resistance).  The all-zero hash is << >>.          *)
(***************************************************************************)
NullHash == << >>

\* a hash that is the hash of no header of the model
BogusHash == << -1 >>

\* CPureBlockHeader::SetNull
NullHeader == [hashPrevBlock |-> NullHash, nTime |-> 0, nBits |-> 0, nNonce |-> 0]

\* CPureBlockHeader::GetHash (SerializeHash of the header's fields)
GetHash(hdr) == hdr.hashPrevBlock \o << hdr.nTime, hdr.nBits, hdr.nNonce >>

\* CompressedHeader(header): the header without its hashPrevBlock
CompressedHeader(hdr) == [nTime |-> hdr.nTime, nBits |-> hdr.nBits, nNonce |-> hdr.nNonce]

\* CompressedHeader::GetFullHeader(hash_prev_block)
GetFullHeader(chdr, hash_prev_block) ==
    [hashPrevBlock |-> hash_prev_block, nTime |-> chdr.nTime,
     nBits |-> chdr.nBits, nNonce |-> chdr.nNonce]

\* m_hasher(hash) & 1: a salted one-bit hash of a header hash
RECURSIVE ParityOf(_)
ParityOf(hash) ==
    IF hash = << >> THEN 0 ELSE (hash[1] + ParityOf(Tail(hash))) % 2

Hasher(salt, hash) == (salt + ParityOf(hash)) % 2

(***************************************************************************)
(* The local chain the peer has to extend (CBlockIndex of chain_start and  *)
(* its ancestors): blocks at the pow limit, one spacing apart, every third *)
(* one late by most of a spacing.                                          *)
(***************************************************************************)
LocalBits(h) == GetCompact(ConsensusParams.powLimit)

LocalTime(h) ==
    100 + h * PoWTargetSpacing(ConsensusParams) + (IF h % 3 = 0 THEN 8 ELSE 0)

LocalChainWork(h) == (h + 1) * GetBlockProof(LocalBits(h))

\* CBlockIndex::GetBlockHeader
RECURSIVE LocalHeader(_)
LocalHeader(h) ==
    [hashPrevBlock |-> IF h = 0 THEN NullHash ELSE GetHash(LocalHeader(h - 1)),
     nTime |-> LocalTime(h), nBits |-> LocalBits(h), nNonce |-> 0]

\* CBlockIndex::GetBlockHash
GetBlockHash(h) == GetHash(LocalHeader(h))

\* LocatorEntries(chain_start): the hashes of chain_start and its ancestors
\* (the step doubles after ten entries; the local chain is shorter than that)
LocatorEntries(h) == [i \in 1..(h + 1) |-> GetBlockHash(h + 1 - i)]

(***************************************************************************)
(* consensus/activation.cpp                                                *)
(***************************************************************************)
\* a const CBlockIndex*: nullptr, or the index of the block of a height
nullptr == [null |-> TRUE, nHeight |-> 0]

BlockIndexAt(h) == [null |-> FALSE, nHeight |-> h]

\* an activation test that turns true one block late
IsUpgrade8Enabled_AboveHeight(params, pindexPrev) ==
    IF pindexPrev.null THEN FALSE
    ELSE pindexPrev.nHeight > params.upgrade8Height

\* IsUpgrade8Enabled(params, pindexPrev)
IsUpgrade8Enabled(params, pindexPrev) ==
    IF pindexPrev.null THEN FALSE
    ELSE pindexPrev.nHeight >= params.upgrade8Height

(***************************************************************************)
(* Window-aware helpers of HeadersSyncState                                *)
(***************************************************************************)
MTP_SPAN == 11

\* the last cap entries of a deque (pop_front while it is longer than cap)
TrimFront(seq, cap) ==
    IF Len(seq) > cap THEN SubSeq(seq, Len(seq) - cap + 1, Len(seq)) ELSE seq

\* tmp[k - 1] after std::nth_element: the k-th smallest entry (k in 1..Len)
NthSmallest(seq, k) ==
    CHOOSE v \in {seq[i] : i \in 1..Len(seq)} :
        /\ Cardinality({i \in 1..Len(seq) : seq[i] < v}) < k
        /\ Cardinality({i \in 1..Len(seq) : seq[i] <= v}) >= k

\* the time history after ComputeMtpForNewTime(new_time)
Last11After(last11_times, new_time) ==
    TrimFront(Append(last11_times, new_time), MTP_SPAN)

\* a median that gives way to the oldest entry once the history is full
ComputeMtpForNewTime_FrontWhenFull(last11_times, new_time) ==
    LET times == Last11After(last11_times, new_time)
        mid   == Len(times) \div 2
    IN  IF Len(last11_times) = MTP_SPAN THEN times[1]
        ELSE NthSmallest(times, mid + 1)

\* a median taken before the candidate is appended
ComputeMtpForNewTime_BeforePush(last11_times, new_time) ==
    LET times == IF last11_times = << >> THEN << new_time >> ELSE last11_times
        mid   == Len(times) \div 2
    IN  NthSmallest(times, mid + 1)

\* the value ComputeMtpForNewTime(new_time) returns
ComputeMtpForNewTime(last11_times, new_time) ==
    LET times == Last11After(last11_times, new_time)
        mid   == Len(times) \div 2
    IN  NthSmallest(times, mid + 1)

\* a history that is only as long as the averaging window needs
RetargetHistory_NoMtpSpan(chain_start) ==
    LET needed == ConsensusParams.nPowAveragingWindow + 1
        count  == Min(needed, chain_start + 1)
    IN  [i \in 1..count |-> chain_start - count + i]

\* a sample buffer that keeps one MTP more than the window's two ends
PushRetargetSample_LongMtp(o, nbits, mtp) ==
    LET win == ConsensusParams.nPowAveragingWindow
    IN  [o EXCEPT !.recent_nbits = TrimFront(Append(@, nbits), win),
                  !.recent_mtp   = TrimFront(Append(@, mtp), win + 2)]

\* a sample buffer that caps recent_mtp like recent_nbits
PushRetargetSample_EqualCaps(o, nbits, mtp) ==
    LET win == ConsensusParams.nPowAveragingWindow
    IN  [o EXCEPT !.recent_nbits = TrimFront(Append(@, nbits), win),
                  !.recent_mtp   = TrimFront(Append(@, mtp), win)]

\* PushRetargetSample on the object o
PushRetargetSample(o, nbits, mtp) ==
    LET win == ConsensusParams.nPowAveragingWindow
    IN  [o EXCEPT !.recent_nbits = TrimFront(Append(@, nbits), win),
                  !.recent_mtp   = TrimFront(Append(@, mtp), win + 1)]

\* ComputeMtpForNewTime followed by PushRetargetSample, as every caller does
PushHeaderSample(o, nbits, time) ==
    PushRetargetSample(
        [o EXCEPT !.last11_times = Last11After(@, time)],
        nbits, ComputeMtpForNewTime(o.last11_times, time))

ClearRetargetBuffers(o) ==
    [o EXCEPT !.recent_nbits = << >>, !.recent_mtp = << >>, !.last11_times = << >>]

SeedRetargetBuffersFromLastHeader(o) ==
    PushHeaderSample(ClearRetargetBuffers(o),
                     o.last_header_received.nBits, o.last_header_received.nTime)

\* the local blocks ResetRetargetBuffersToChainStart walks, oldest first
RetargetHistory(chain_start) ==
    LET needed == ConsensusParams.nPowAveragingWindow + 1 + MTP_SPAN
        count  == Min(needed, chain_start + 1)
    IN  [i \in 1..count |-> chain_start - count + i]

RECURSIVE PushLocalBlocks(_, _)
PushLocalBlocks(o, heights) ==
    IF heights = << >> THEN o
    ELSE PushLocalBlocks(
            PushHeaderSample(o, LocalBits(Head(heights)), LocalHeader(Head(heights)).nTime),
            Tail(heights))

ResetRetargetBuffersToChainStart(o) ==
    PushLocalBlocks(ClearRetargetBuffers(o), RetargetHistory(o.chain_start))

RECURSIVE SumTargets(_)
SumTargets(nbits) ==
    IF nbits = << >> THEN 0
    ELSE (SetCompact(Head(nbits)) + SumTargets(Tail(nbits))) % UintMod

\* the compact target the sliding window expects for the next header
ExpectedCompact(params, recent_nbits, recent_mtp) ==
    LET bnAvg == SumTargets(recent_nbits) \div params.nPowAveragingWindow
    IN  CalculateNextWorkRequiredNew(bnAvg, recent_mtp[Len(recent_mtp)],
                                     recent_mtp[1], params)

\* the window comparison of CheckWindowAwareRetarget: the observed target is
\* within the slack of the expected target
WithinSlack(exp_target, obs_target) ==
    LET slack == 4
        min_t == IF exp_target > slack THEN exp_target - slack ELSE 0
        max_t == (exp_target + slack) % UintMod
    IN  ~(obs_target < min_t \/ obs_target > max_t)

\* a retarget check that applies the min-difficulty rule before the
\* activation window
CheckWindowAwareRetarget_MinDifficultyFirst(params, recent_nbits, recent_mtp, prev_nbits, next_nbits, next_time, prev_time, next_height) ==
    LET win == params.nPowAveragingWindow
        exp_target == SetCompact(ExpectedCompact(params, recent_nbits, recent_mtp))
        obs_target == SetCompact(next_nbits)
    IN  IF Len(recent_nbits) < win \/ Len(recent_mtp) < win + 1 THEN TRUE
        ELSE IF /\ params.nPowAllowMinDifficultyBlocksAfterHeight # NoHeight
                /\ next_height - 1 >= params.nPowAllowMinDifficultyBlocksAfterHeight
                /\ next_time > prev_time + PoWTargetSpacing(params) * 6
        THEN next_nbits = GetCompact(params.powLimit)
        ELSE IF next_height <= params.nNewPowDiffHeight + win THEN TRUE
        ELSE IF ~WithinSlack(exp_target, obs_target)
        THEN PermittedDifficultyTransition(params, next_height, prev_nbits, next_nbits)
        ELSE TRUE

CheckWindowAwareRetarget(params, recent_nbits, recent_mtp, prev_nbits, next_nbits, next_time, prev_time, next_height) ==
    LET win == params.nPowAveragingWindow
        exp_target == SetCompact(ExpectedCompact(params, recent_nbits, recent_mtp))
        obs_target == SetCompact(next_nbits)
    IN  IF Len(recent_nbits) < win \/ Len(recent_mtp) < win + 1 THEN TRUE
        ELSE IF next_height <= params.nNewPowDiffHeight + win THEN TRUE
        ELSE IF /\ params.nPowAllowMinDifficultyBlocksAfterHeight # NoHeight
                /\ next_height - 1 >= params.nPowAllowMinDifficultyBlocksAfterHeight
                /\ next_time > prev_time + PoWTargetSpacing(params) * 6
        THEN next_nbits = GetCompact(params.powLimit)
        ELSE IF ~WithinSlack(exp_target, obs_target)
        THEN PermittedDifficultyTransition(params, next_height, prev_nbits, next_nbits)
        ELSE TRUE

(***************************************************************************)
(* HeadersSyncState: the object and its member functions as functions of   *)
(* the object record o                                                     *)
(***************************************************************************)
\* HeadersSyncState::HeadersSyncState: the object after construction.  The
\* random commit offset, the hasher's salt and the clock-dependent
\* m_max_commitments are the arguments.
NewHeadersSyncState(chain_start, minimum_required_work, commit_offset, salt, max_commitments) ==
    ResetRetargetBuffersToChainStart(
        [ download_state        |-> "PRESYNC",
          chain_start           |-> chain_start,
          minimum_required_work |-> minimum_required_work,
          commit_offset         |-> commit_offset,
          salt                  |-> salt,
          max_commitments       |-> max_commitments,
          current_chain_work    |-> LocalChainWork(chain_start),
          last_header_received  |-> LocalHeader(chain_start),
          current_height        |-> chain_start,
          header_commitments    |-> << >>,
          redownloaded_headers  |-> << >>,
          redownload_buffer_last_height     |-> 0,
          redownload_buffer_last_hash       |-> NullHash,
          redownload_buffer_first_prev_hash |-> NullHash,
          redownload_chain_work |-> 0,
          process_all_remaining_headers |-> FALSE,
          recent_nbits          |-> << >>,
          recent_mtp            |-> << >>,
          last11_times          |-> << >> ])

\* a Finalize that makes the object ready for another sync
Finalize_Reuse(o) ==
    [o EXCEPT !.header_commitments = << >>,
              !.last_header_received = NullHeader,
              !.redownloaded_headers = << >>,
              !.redownload_buffer_last_hash = NullHash,
              !.redownload_buffer_first_prev_hash = NullHash,
              !.process_all_remaining_headers = FALSE,
              !.current_height = 0,
              !.download_state = "PRESYNC"]

\* a Finalize that keeps the redownload buffer
Finalize_KeepsBuffer(o) ==
    [o EXCEPT !.header_commitments = << >>,
              !.last_header_received = NullHeader,
              !.redownload_buffer_last_hash = NullHash,
              !.redownload_buffer_first_prev_hash = NullHash,
              !.process_all_remaining_headers = FALSE,
              !.current_height = 0,
              !.download_state = "FINAL"]

\* a Finalize that reopens an instance that is FINAL already
Finalize_Reopens(o) ==
    [o EXCEPT !.header_commitments = << >>,
              !.last_header_received = NullHeader,
              !.redownloaded_headers = << >>,
              !.redownload_buffer_last_hash = NullHash,
              !.redownload_buffer_first_prev_hash = NullHash,
              !.process_all_remaining_headers = FALSE,
              !.current_height = 0,
              !.download_state = IF @ = "FINAL" THEN "PRESYNC" ELSE "FINAL"]

\* HeadersSyncState::Finalize
Finalize(o) ==
    [o EXCEPT !.header_commitments = << >>,
              !.last_header_received = NullHeader,
              !.redownloaded_headers = << >>,
              !.redownload_buffer_last_hash = NullHash,
              !.redownload_buffer_first_prev_hash = NullHash,
              !.process_all_remaining_headers = FALSE,
              !.current_height = 0,
              !.download_state = "FINAL"]

\* a schedule that ignores the random offset
IsCommitmentHeight_NoOffset(o, next_height) ==
    next_height % HEADER_COMMITMENT_PERIOD = 0

\* the commitment schedule: next_height % HEADER_COMMITMENT_PERIOD == m_commit_offset
IsCommitmentHeight(o, next_height) ==
    next_height % HEADER_COMMITMENT_PERIOD = o.commit_offset

\* a cap that is never enforced
ExceedsMaxCommitments_Never(o) == FALSE

\* a cap that is enforced one commitment late
ExceedsMaxCommitments_Late(o) == Len(o.header_commitments) > o.max_commitments + 1

\* the size test after a commitment was pushed in PRESYNC
ExceedsMaxCommitments(o) == Len(o.header_commitments) > o.max_commitments

\* HeadersSyncState::ValidateAndProcessSingleHeader: [ok, o], o the object when
\* the function returns
ValidateAndProcessSingleHeader(o0, current) ==
    LET o == IF o0.recent_nbits = << >> THEN SeedRetargetBuffersFromLastHeader(o0) ELSE o0
        next_height == o.current_height + 1
        permitted == CheckWindowAwareRetarget(ConsensusParams, o.recent_nbits, o.recent_mtp,
                        o.last_header_received.nBits, current.nBits, current.nTime,
                        o.last_header_received.nTime, next_height)
        pushed == IF IsCommitmentHeight(o, next_height)
                  THEN [o EXCEPT !.header_commitments =
                            Append(@, Hasher(o.salt, GetHash(current)))]
                  ELSE o
        stored == [pushed EXCEPT
                     !.current_chain_work = (@ + GetBlockProof(current.nBits)) % UintMod,
                     !.last_header_received = current,
                     !.current_height = next_height]
    IN  IF o0.download_state # "PRESYNC" THEN [ok |-> FALSE, o |-> o0]
        ELSE IF ~permitted THEN [ok |-> FALSE, o |-> o]
        ELSE IF IsCommitmentHeight(o, next_height) /\ ExceedsMaxCommitments(pushed)
        THEN [ok |-> FALSE, o |-> pushed]
        ELSE [ok |-> TRUE, o |-> PushHeaderSample(stored, current.nBits, current.nTime)]

\* the continuity test of PRESYNC, on the first header of the batch only
\* (headerssync.cpp:154)
ConnectsToLastReceived(o, headers) ==
    headers[1].hashPrevBlock = GetHash(o.last_header_received)

\* a work test that always succeeds
ReachedMinimumWork_Always(o) == TRUE

\* the work test at the end of a PRESYNC batch
ReachedMinimumWork(o) == o.current_chain_work >= o.minimum_required_work

\* a switch that starts the redownloaded work at zero
SwitchToRedownloadIfWorkReached_WorkFromZero(o) ==
    IF ReachedMinimumWork(o)
    THEN [ResetRetargetBuffersToChainStart(
            [o EXCEPT !.redownloaded_headers = << >>,
                      !.redownload_buffer_last_height = o.chain_start,
                      !.redownload_buffer_first_prev_hash = GetBlockHash(o.chain_start),
                      !.redownload_buffer_last_hash = GetBlockHash(o.chain_start),
                      !.redownload_chain_work = 0])
          EXCEPT !.download_state = "REDOWNLOAD"]
    ELSE o

\* a switch that leaves the retarget buffers as PRESYNC filled them
SwitchToRedownloadIfWorkReached_KeepsPresyncBuffers(o) ==
    IF ReachedMinimumWork(o)
    THEN [o EXCEPT !.redownloaded_headers = << >>,
                   !.redownload_buffer_last_height = o.chain_start,
                   !.redownload_buffer_first_prev_hash = GetBlockHash(o.chain_start),
                   !.redownload_buffer_last_hash = GetBlockHash(o.chain_start),
                   !.redownload_chain_work = LocalChainWork(o.chain_start),
                   !.download_state = "REDOWNLOAD"]
    ELSE o

\* the tail of ValidateAndStoreHeadersCommitments (headerssync.cpp:171-182)
SwitchToRedownloadIfWorkReached(o) ==
    IF ReachedMinimumWork(o)
    THEN [ResetRetargetBuffersToChainStart(
            [o EXCEPT !.redownloaded_headers = << >>,
                      !.redownload_buffer_last_height = o.chain_start,
                      !.redownload_buffer_first_prev_hash = GetBlockHash(o.chain_start),
                      !.redownload_buffer_last_hash = GetBlockHash(o.chain_start),
                      !.redownload_chain_work = LocalChainWork(o.chain_start)])
          EXCEPT !.download_state = "REDOWNLOAD"]
    ELSE o

\* a REDOWNLOAD that does not test continuity
ConnectsToRedownloadBuffer_Skipped(o, header) == TRUE

\* the continuity test of REDOWNLOAD (headerssync.cpp:243)
ConnectsToRedownloadBuffer(o, header) ==
    header.hashPrevBlock = o.redownload_buffer_last_hash

\* a REDOWNLOAD that checks a commitment only while one is stored, and
\* accepts the headers beyond the last stored commitment
ValidateAndStoreRedownloadedHeader_NoOverrun(o, header) ==
    LET next_height == o.redownload_buffer_last_height + 1
        empty == o.redownloaded_headers = << >>
        back  == o.redownloaded_headers[Len(o.redownloaded_headers)]
        previous_nBits == IF ~empty THEN back.nBits ELSE LocalBits(o.chain_start)
        previous_time  == IF empty THEN LocalHeader(o.chain_start).nTime ELSE back.nTime
        permitted == CheckWindowAwareRetarget(ConsensusParams, o.recent_nbits, o.recent_mtp,
                        previous_nBits, header.nBits, header.nTime, previous_time, next_height)
        work    == (o.redownload_chain_work + GetBlockProof(header.nBits)) % UintMod
        worked  == [o EXCEPT !.redownload_chain_work = work,
                             !.process_all_remaining_headers =
                                 IF work >= o.minimum_required_work THEN TRUE ELSE @]
        check   == /\ ~worked.process_all_remaining_headers
                   /\ IsCommitmentHeight(o, next_height)
                   /\ worked.header_commitments # << >>
        popped  == [worked EXCEPT !.header_commitments = Tail(@)]
        checked == IF check THEN popped ELSE worked
        stored  == [checked EXCEPT
                      !.redownloaded_headers = Append(@, CompressedHeader(header)),
                      !.redownload_buffer_last_height = next_height,
                      !.redownload_buffer_last_hash = GetHash(header)]
    IN  IF o.download_state # "REDOWNLOAD" THEN [ok |-> FALSE, o |-> o]
        ELSE IF ~ConnectsToRedownloadBuffer(o, header)
        THEN [ok |-> FALSE, o |-> o]
        ELSE IF ~permitted THEN [ok |-> FALSE, o |-> o]
        ELSE IF check /\ Hasher(o.salt, GetHash(header)) # Head(worked.header_commitments)
        THEN [ok |-> FALSE, o |-> popped]
        ELSE [ok |-> TRUE, o |-> PushHeaderSample(stored, header.nBits, header.nTime)]

\* HeadersSyncState::ValidateAndStoreRedownloadedHeader: [ok, o]
ValidateAndStoreRedownloadedHeader(o, header) ==
    LET next_height == o.redownload_buffer_last_height + 1
        empty == o.redownloaded_headers = << >>
        back  == o.redownloaded_headers[Len(o.redownloaded_headers)]
        previous_nBits == IF ~empty THEN back.nBits ELSE LocalBits(o.chain_start)
        previous_time  == IF empty THEN LocalHeader(o.chain_start).nTime ELSE back.nTime
        permitted == CheckWindowAwareRetarget(ConsensusParams, o.recent_nbits, o.recent_mtp,
                        previous_nBits, header.nBits, header.nTime, previous_time, next_height)
        work    == (o.redownload_chain_work + GetBlockProof(header.nBits)) % UintMod
        worked  == [o EXCEPT !.redownload_chain_work = work,
                             !.process_all_remaining_headers =
                                 IF work >= o.minimum_required_work THEN TRUE ELSE @]
        check   == ~worked.process_all_remaining_headers /\ IsCommitmentHeight(o, next_height)
        popped  == [worked EXCEPT !.header_commitments = Tail(@)]
        checked == IF check THEN popped ELSE worked
        stored  == [checked EXCEPT
                      !.redownloaded_headers = Append(@, CompressedHeader(header)),
                      !.redownload_buffer_last_height = next_height,
                      !.redownload_buffer_last_hash = GetHash(header)]
    IN  IF o.download_state # "REDOWNLOAD" THEN [ok |-> FALSE, o |-> o]
        ELSE IF ~ConnectsToRedownloadBuffer(o, header)
        THEN [ok |-> FALSE, o |-> o]
        ELSE IF ~permitted THEN [ok |-> FALSE, o |-> o]
        ELSE IF check /\ worked.header_commitments = << >>
        THEN [ok |-> FALSE, o |-> worked]
        ELSE IF check /\ Hasher(o.salt, GetHash(header)) # Head(worked.header_commitments)
        THEN [ok |-> FALSE, o |-> popped]
        ELSE [ok |-> TRUE, o |-> PushHeaderSample(stored, header.nBits, header.nTime)]

\* a loop test that releases a header as soon as the buffer is full
ReadyForAcceptance_AtBufferSize(o) ==
    \/ Len(o.redownloaded_headers) >= REDOWNLOAD_BUFFER_SIZE
    \/ (Len(o.redownloaded_headers) > 0 /\ o.process_all_remaining_headers)

\* a loop test that keeps one header more than the buffer size
ReadyForAcceptance_OneMore(o) ==
    \/ Len(o.redownloaded_headers) > REDOWNLOAD_BUFFER_SIZE + 1
    \/ (Len(o.redownloaded_headers) > 0 /\ o.process_all_remaining_headers)

\* the loop test of PopHeadersReadyForAcceptance
ReadyForAcceptance(o) ==
    \/ Len(o.redownloaded_headers) > REDOWNLOAD_BUFFER_SIZE
    \/ (Len(o.redownloaded_headers) > 0 /\ o.process_all_remaining_headers)

\* a pop loop that takes the newest buffered header first
RECURSIVE PopLoop_FromBack(_, _)
PopLoop_FromBack(o, acc) ==
    IF ReadyForAcceptance(o)
    THEN LET n == Len(o.redownloaded_headers)
             full == GetFullHeader(o.redownloaded_headers[n],
                                   o.redownload_buffer_first_prev_hash)
         IN  PopLoop_FromBack(
                 [o EXCEPT !.redownloaded_headers = SubSeq(@, 1, n - 1),
                           !.redownload_buffer_first_prev_hash = GetHash(full)],
                 Append(acc, full))
    ELSE [ret |-> acc, o |-> o]

\* a pop loop whose cursor stays where the redownload began
RECURSIVE PopLoop_CursorFixed(_, _)
PopLoop_CursorFixed(o, acc) ==
    IF ReadyForAcceptance(o)
    THEN LET full == GetFullHeader(Head(o.redownloaded_headers),
                                   o.redownload_buffer_first_prev_hash)
         IN  PopLoop_CursorFixed([o EXCEPT !.redownloaded_headers = Tail(@)],
                                 Append(acc, full))
    ELSE [ret |-> acc, o |-> o]

\* HeadersSyncState::PopHeadersReadyForAcceptance: [ret, o], from the headers
\* already popped (acc) on
RECURSIVE PopLoop(_, _)
PopLoop(o, acc) ==
    IF ReadyForAcceptance(o)
    THEN LET full == GetFullHeader(Head(o.redownloaded_headers),
                                   o.redownload_buffer_first_prev_hash)
         IN  PopLoop([o EXCEPT !.redownloaded_headers = Tail(@),
                               !.redownload_buffer_first_prev_hash = GetHash(full)],
                     Append(acc, full))
    ELSE [ret |-> acc, o |-> o]

PopHeadersReadyForAcceptance(o) ==
    IF o.download_state # "REDOWNLOAD" THEN [ret |-> << >>, o |-> o]
    ELSE PopLoop(o, << >>)

\* a locator that continues from the last header received in both phases
NextHeadersRequestLocator_LastReceived(o) ==
    IF o.download_state = "FINAL" THEN << >>
    ELSE << GetHash(o.last_header_received) >> \o LocatorEntries(o.chain_start)

\* a locator that does not test for FINAL
NextHeadersRequestLocator_NoGuard(o) ==
    (IF o.download_state = "PRESYNC"
     THEN << GetHash(o.last_header_received) >> ELSE << >>)
    \o (IF o.download_state = "REDOWNLOAD"
        THEN << o.redownload_buffer_last_hash >> ELSE << >>)
    \o LocatorEntries(o.chain_start)

\* HeadersSyncState::NextHeadersRequestLocator
NextHeadersRequestLocator(o) ==
    IF o.download_state = "FINAL" THEN << >>
    ELSE (IF o.download_state = "PRESYNC"
          THEN << GetHash(o.last_header_received) >> ELSE << >>)
         \o (IF o.download_state = "REDOWNLOAD"
             THEN << o.redownload_buffer_last_hash >> ELSE << >>)
         \o LocatorEntries(o.chain_start)

(***************************************************************************)
(* The peer's inputs                                                       *)
(***************************************************************************)
\* the <<bits, nonce>> of the connected headers a peer may send: one at the
\* pow limit and one at half of it, whose hashes differ in their salted bit
PeerChoices ==
    { << GetCompact(ConsensusParams.powLimit), 0 >>,
      << GetCompact(ConsensusParams.powLimit \div 2), 1 >> }

\* the headers a peer may send on top of a header with hash prev_hash and
\* time prev_time: connected ones, and one that does not connect
PeerHeaders(prev_hash, prev_time) ==
    { [hashPrevBlock |-> prev_hash,
       nTime  |-> prev_time + PoWTargetSpacing(ConsensusParams),
       nBits  |-> c[1], nNonce |-> c[2]] : c \in PeerChoices }
    \cup
    { [hashPrevBlock |-> BogusHash,
       nTime  |-> prev_time + PoWTargetSpacing(ConsensusParams),
       nBits  |-> GetCompact(ConsensusParams.powLimit), nNonce |-> 0] }

\* the headers messages of n headers, each header built on the one before it
RECURSIVE Batches(_, _, _)
Batches(n, prev_hash, prev_time) ==
    IF n = 0 THEN { << >> }
    ELSE UNION { { << h >> \o rest : rest \in Batches(n - 1, GetHash(h), h.nTime) }
                 : h \in PeerHeaders(prev_hash, prev_time) }

\* a headers message is full when it carries the maximum number of headers
\* (MAX_HEADERS_RESULTS); the flag is the caller's
FullFlags == BOOLEAN

(***************************************************************************)
(* State                                                                   *)
(***************************************************************************)
VARIABLES
    sync,                  \* the HeadersSyncState object
    pc,                    \* position inside ProcessNextHeaders, "idle" outside
    received_headers,      \* argument of the call in progress
    full_headers_message,  \* argument of the call in progress
    pos,                   \* index of the next header of the loop
    ret,                   \* the ProcessingResult of the current or last call
    hist                   \* history of the instance (not program state)

vars == << sync, pc, received_headers, full_headers_message, pos, ret, hist >>

\* ProcessingResult{}: success and request_more default to false
DefaultResult == [success |-> FALSE, request_more |-> FALSE, pow_validated_headers |-> << >>]

\* the hash and time the peer builds its next header on
HeadHash ==
    IF sync.download_state = "REDOWNLOAD" THEN sync.redownload_buffer_last_hash
    ELSE GetHash(sync.last_header_received)

HeadTime ==
    IF sync.download_state = "REDOWNLOAD"
    THEN (IF sync.redownloaded_headers = << >>
          THEN LocalHeader(sync.chain_start).nTime
          ELSE sync.redownloaded_headers[Len(sync.redownloaded_headers)].nTime)
    ELSE sync.last_header_received.nTime

\* the work threshold an instance is constructed with: the work of five
\* pow-limit headers above chain_start's
WorkThresholds(chain_start) ==
    { LocalChainWork(chain_start) + 5 * GetBlockProof(LocalBits(chain_start)) }

Init ==
    /\ \E chain_start \in {ChainStartHeight},
          commit_offset \in 0..(HEADER_COMMITMENT_PERIOD - 1),
          salt \in {1},
          max_commitments \in {MaxCommitmentsCap} :
        \E minimum_required_work \in WorkThresholds(chain_start) :
            sync = NewHeadersSyncState(chain_start, minimum_required_work,
                                       commit_offset, salt, max_commitments)
    /\ pc = "idle"
    /\ received_headers = << >>
    /\ full_headers_message = FALSE
    /\ pos = 0
    /\ ret = DefaultResult
    /\ hist = [ entry_state   |-> "NONE",   \* download state when the last call began
                batch_empty   |-> FALSE,    \* the last call had an empty batch
                delivered     |-> 0,        \* headers handed to the live instance
                presync_accepted    |-> << >>,  \* headers accepted in PRESYNC
                presync_first       |-> << >>,  \* for each of them: it was first in its batch
                redownload_accepted |-> << >>,  \* headers accepted in REDOWNLOAD
                released      |-> << >>,    \* all pow_validated_headers returned
                pushed        |-> << >>,    \* <<height, bit>> of each commitment pushed
                popped        |-> << >>,    \* <<height, bit>> of each commitment popped
                work_observed |-> FALSE,    \* the work test of PRESYNC succeeded
                presync_headers |-> 0,      \* headers processed by the PRESYNC loop
                peak_commitments |-> 0,     \* largest |header_commitments| so far
                assume_failed |-> FALSE ]   \* an Assume(...) of the last call did not hold

(***************************************************************************)
(* ProcessNextHeaders                                                      *)
(***************************************************************************)
\* headerssync.cpp:78-81: an empty batch returns the default result at once
CallEmpty ==
    /\ pc = "idle"
    /\ ret' = DefaultResult
    /\ hist' = [hist EXCEPT !.entry_state = sync.download_state,
                            !.batch_empty = TRUE,
                            !.assume_failed = TRUE]
    /\ UNCHANGED << sync, pc, received_headers, full_headers_message, pos >>

\* headerssync.cpp:82-83: a call on a FINAL instance returns the default result
CallFinal ==
    /\ pc = "idle"
    /\ sync.download_state = "FINAL"
    /\ ret' = DefaultResult
    /\ hist' = [hist EXCEPT !.entry_state = "FINAL",
                            !.batch_empty = FALSE,
                            !.assume_failed = TRUE]
    /\ UNCHANGED << sync, pc, received_headers, full_headers_message, pos >>

\* headerssync.cpp:84-88 and 142-161: entry in PRESYNC, up to the test of the
\* first header's hashPrevBlock
CallPresync ==
    /\ pc = "idle"
    /\ sync.download_state = "PRESYNC"
    /\ \E n \in 1..MaxBatch, full \in FullFlags :
         /\ hist.delivered + n <= MaxHeaders
         /\ \E batch \in Batches(n, HeadHash, HeadTime) :
              /\ received_headers' = batch
              /\ full_headers_message' = full
              /\ hist' = [hist EXCEPT !.entry_state = "PRESYNC",
                                      !.batch_empty = FALSE,
                                      !.assume_failed = FALSE,
                                      !.delivered = @ + n]
              /\ IF ~ConnectsToLastReceived(sync, batch)
                 THEN /\ ret' = [DefaultResult EXCEPT !.success = FALSE]
                      /\ pc' = "return"
                 ELSE /\ ret' = DefaultResult
                      /\ pc' = "presync"
    /\ pos' = 1
    /\ UNCHANGED sync

\* headerssync.cpp:165-169: one iteration of the PRESYNC loop
PresyncHeader ==
    /\ pc = "presync"
    /\ LET r == ValidateAndProcessSingleHeader(sync, received_headers[pos])
           next_height == sync.current_height + 1
           grew == Len(r.o.header_commitments) > Len(sync.header_commitments)
           h1 == [hist EXCEPT
                    !.presync_headers = @ + 1,
                    !.peak_commitments = Max(@, Len(r.o.header_commitments)),
                    !.pushed = IF grew
                               THEN Append(@, << next_height,
                                       r.o.header_commitments[Len(r.o.header_commitments)] >>)
                               ELSE @]
       IN  /\ sync' = r.o
           /\ IF r.ok
              THEN /\ hist' = [h1 EXCEPT !.presync_accepted = Append(@, received_headers[pos]),
                                         !.presync_first = Append(@, pos = 1)]
                   /\ pos' = pos + 1
                   /\ pc' = IF pos = Len(received_headers) THEN "presync_end" ELSE "presync"
                   /\ ret' = ret
              ELSE /\ hist' = h1
                   /\ pos' = pos
                   /\ pc' = "return"
                   /\ ret' = [ret EXCEPT !.success = FALSE]
    /\ UNCHANGED << received_headers, full_headers_message >>

\* a request_more that follows the full flag alone
PresyncRequestMore_FullOnly(o, full) == full

\* headerssync.cpp:90-94: request_more after a PRESYNC batch was accepted
PresyncRequestMore(o, full) == full \/ o.download_state = "REDOWNLOAD"

\* headerssync.cpp:171-182 and 89-102: the work test after the loop, and the
\* result of a successful PRESYNC batch
PresyncEnd ==
    /\ pc = "presync_end"
    /\ sync' = SwitchToRedownloadIfWorkReached(sync)
    /\ ret' = [ret EXCEPT !.success = TRUE,
                          !.request_more = PresyncRequestMore(sync', full_headers_message)]
    /\ hist' = [hist EXCEPT !.work_observed =
                    @ \/ sync.current_chain_work >= sync.minimum_required_work]
    /\ pc' = "return"
    /\ UNCHANGED << received_headers, full_headers_message, pos >>

\* headerssync.cpp:103-108: entry in REDOWNLOAD
CallRedownload ==
    /\ pc = "idle"
    /\ sync.download_state = "REDOWNLOAD"
    /\ \E n \in 1..MaxBatch, full \in FullFlags :
         /\ hist.delivered + n <= MaxHeaders
         /\ \E batch \in Batches(n, HeadHash, HeadTime) :
              /\ received_headers' = batch
              /\ full_headers_message' = full
              /\ hist' = [hist EXCEPT !.entry_state = "REDOWNLOAD",
                                      !.batch_empty = FALSE,
                                      !.assume_failed = FALSE,
                                      !.delivered = @ + n]
    /\ ret' = [DefaultResult EXCEPT !.success = TRUE]
    /\ pc' = "redownload"
    /\ pos' = 1
    /\ UNCHANGED sync

\* headerssync.cpp:109-117: one iteration of the REDOWNLOAD loop
RedownloadHeader ==
    /\ pc = "redownload"
    /\ LET r == ValidateAndStoreRedownloadedHeader(sync, received_headers[pos])
           next_height == sync.redownload_buffer_last_height + 1
           shrank == Len(r.o.header_commitments) < Len(sync.header_commitments)
           h1 == [hist EXCEPT
                    !.popped = IF shrank
                               THEN Append(@, << next_height, Head(sync.header_commitments) >>)
                               ELSE @]
       IN  /\ sync' = r.o
           /\ IF r.ok
              THEN /\ hist' = [h1 EXCEPT !.redownload_accepted = Append(@, received_headers[pos])]
                   /\ pos' = pos + 1
                   /\ pc' = IF pos = Len(received_headers) THEN "redownload_end" ELSE "redownload"
                   /\ ret' = ret
              ELSE /\ hist' = h1
                   /\ pos' = pos
                   /\ pc' = "return"
                   /\ ret' = [ret EXCEPT !.success = FALSE]
    /\ UNCHANGED << received_headers, full_headers_message >>

\* a request_more that follows the full flag alone
RedownloadRequestMore_FullOnly(o, full) == full

\* headerssync.cpp:124-135: request_more after the ready headers were popped
RedownloadRequestMore(o, full) ==
    IF o.redownloaded_headers = << >> /\ o.process_all_remaining_headers
    THEN FALSE
    ELSE full

\* headerssync.cpp:118-136: the result of a successful REDOWNLOAD batch
RedownloadEnd ==
    /\ pc = "redownload_end"
    /\ LET p == PopHeadersReadyForAcceptance(sync)
       IN  /\ sync' = p.o
           /\ ret' = [ret EXCEPT
                        !.pow_validated_headers = p.ret,
                        !.request_more = RedownloadRequestMore(p.o, full_headers_message)]
    /\ pc' = "return"
    /\ UNCHANGED << received_headers, full_headers_message, pos, hist >>

\* a test that finalizes after every call
ShouldFinalize_Always(result) == TRUE

\* a test that finalizes only a sync that ended with success
ShouldFinalize_OnlyOnSuccess(result) == result.success /\ ~result.request_more

\* the test of headerssync.cpp:138
ShouldFinalize(result) == ~(result.success /\ result.request_more)

\* headerssync.cpp:138-139: finalize unless more is requested, and return
Return ==
    /\ pc = "return"
    /\ sync' = IF ShouldFinalize(ret) THEN Finalize(sync) ELSE sync
    /\ hist' = [hist EXCEPT !.released = @ \o ret.pow_validated_headers]
    /\ pc' = "idle"
    /\ received_headers' = << >>
    /\ full_headers_message' = FALSE
    /\ pos' = 0
    /\ UNCHANGED ret

\* the driver calls Finalize() between two calls (cancellation)
FinalizeCall ==
    /\ pc = "idle"
    /\ sync' = Finalize(sync)
    /\ hist' = [hist EXCEPT !.assume_failed = (sync.download_state = "FINAL")]
    /\ UNCHANGED << pc, received_headers, full_headers_message, pos, ret >>

Next ==
    \/ CallEmpty
    \/ CallFinal
    \/ CallPresync
    \/ PresyncHeader
    \/ PresyncEnd
    \/ CallRedownload
    \/ RedownloadHeader
    \/ RedownloadEnd
    \/ Return
    \/ FinalizeCall

Spec == Init /\ [][Next]_vars

(***************************************************************************)
(* Properties                                                              *)
(***************************************************************************)
ChainStartHash == GetBlockHash(sync.chain_start)

\* every header of seq has the hash of the header before it as hashPrevBlock,
\* the first one start_hash
Chained(seq, start_hash) ==
    \A i \in 1..Len(seq) :
        seq[i].hashPrevBlock = IF i = 1 THEN start_hash ELSE GetHash(seq[i - 1])

\* C1: no header is handed downstream before the peer's chain was found to
\* reach the work threshold: a call that starts in PRESYNC returns no headers, a
\* non-empty pow_validated_headers comes from a call that started in REDOWNLOAD,
\* and REDOWNLOAD is entered only after current_chain_work >=
\* minimum_required_work was observed at the end of an accepted PRESYNC batch.
C1_NoReleaseBeforeWork ==
    /\ hist.entry_state = "PRESYNC" => ret.pow_validated_headers = << >>
    /\ ret.pow_validated_headers # << >> => hist.entry_state = "REDOWNLOAD"
    /\ sync.download_state = "REDOWNLOAD" =>
          /\ hist.work_observed
          /\ hist.presync_accepted # << >>
          /\ sync.current_chain_work >= sync.minimum_required_work
    /\ hist.released # << >> => hist.work_observed

C1_Witness ==
    /\ pc = "idle"
    /\ hist.entry_state = "REDOWNLOAD"
    /\ ret.pow_validated_headers # << >>

PhaseRank(state) ==
    CASE state = "PRESYNC" -> 0
      [] state = "REDOWNLOAD" -> 1
      [] state = "FINAL" -> 2

\* C2: over any sequence of ProcessNextHeaders and Finalize calls the download
\* state only moves forward along PRESYNC -> REDOWNLOAD -> FINAL.
C2_PhaseOnlyAdvances ==
    [][PhaseRank(sync'.download_state) >= PhaseRank(sync.download_state)]_vars

\* an instance that went through REDOWNLOAD, became FINAL and was called again
C2_Witness ==
    /\ sync.download_state = "FINAL"
    /\ hist.redownload_accepted # << >>
    /\ hist.entry_state = "FINAL"

\* C3 as stated: every accepted header, in PRESYNC as in REDOWNLOAD and at every
\* position of a batch, has the hash of the header accepted before it in that
\* phase (chain_start's hash for the first) as hashPrevBlock.
C3_EveryAcceptedHeaderConnects ==
    /\ Chained(hist.presync_accepted, ChainStartHash)
    /\ Chained(hist.redownload_accepted, ChainStartHash)

\* C3 amended: the above holds for every header accepted in REDOWNLOAD and for
\* the first header of every PRESYNC batch; the later headers of a PRESYNC batch
\* are not tested for continuity.
C3_ContinuityAsTested ==
    /\ Chained(hist.redownload_accepted, ChainStartHash)
    /\ \A i \in 1..Len(hist.presync_accepted) :
          hist.presync_first[i] =>
             hist.presync_accepted[i].hashPrevBlock =
                IF i = 1 THEN ChainStartHash ELSE GetHash(hist.presync_accepted[i - 1])

\* a second PRESYNC batch and two REDOWNLOAD headers were accepted
C3_Witness ==
    /\ Len(hist.redownload_accepted) >= 2
    /\ \E i \in 2..Len(hist.presync_accepted) : hist.presync_first[i]

\* the k-th height above chain_start that is on the commitment schedule
ScheduledHeight(k) ==
    LET first == CHOOSE h \in (sync.chain_start + 1)..(sync.chain_start + HEADER_COMMITMENT_PERIOD) :
                    h % HEADER_COMMITMENT_PERIOD = sync.commit_offset
    IN  first + (k - 1) * HEADER_COMMITMENT_PERIOD

OnSchedule(h) == h % HEADER_COMMITMENT_PERIOD = sync.commit_offset

\* the redownload chain work after the first j headers accepted in REDOWNLOAD
RECURSIVE RedownloadWorkAfter(_)
RedownloadWorkAfter(j) ==
    IF j = 0 THEN LocalChainWork(sync.chain_start)
    ELSE (RedownloadWorkAfter(j - 1)
          + GetBlockProof(hist.redownload_accepted[j].nBits)) % UintMod

\* C4: commitments are pushed in PRESYNC exactly at the heights h with
\* h mod HEADER_COMMITMENT_PERIOD = commit_offset; in REDOWNLOAD, while
\* process_all_remaining_headers is false, one commitment is popped at each such
\* height in FIFO order, so the k-th bit popped is the bit pushed for the same
\* height; a header at such a height is accepted only if the FIFO is non-empty
\* and the salted bit of its hash equals the popped bit, otherwise the call fails.
C4_CommitmentsPushedAndPoppedOnSchedule ==
    LET cs == sync.chain_start
        pacc == hist.presync_accepted
        racc == hist.redownload_accepted
    IN  /\ \A k \in 1..Len(hist.pushed) :
              /\ hist.pushed[k][1] = ScheduledHeight(k)
              /\ hist.pushed[k][1] <= cs + Len(pacc) + 1
        /\ \A i \in 1..Len(pacc) :
              OnSchedule(cs + i) =>
                 \E k \in 1..Len(hist.pushed) :
                    hist.pushed[k] = << cs + i, Hasher(sync.salt, GetHash(pacc[i])) >>
        /\ Len(hist.popped) <= Len(hist.pushed)
        /\ \A k \in 1..Len(hist.popped) :
              /\ hist.popped[k] = hist.pushed[k]
              /\ hist.popped[k][1] <= cs + Len(racc) + 1
              /\ hist.popped[k][1] = cs + Len(racc) + 1 => ~ret.success
        /\ \A j \in 1..Len(racc) :
              (OnSchedule(cs + j) /\ RedownloadWorkAfter(j) < sync.minimum_required_work)
              <=> \E k \in 1..Len(hist.popped) :
                     hist.popped[k] = << cs + j, Hasher(sync.salt, GetHash(racc[j])) >>

\* two commitments were popped for two accepted headers
C4_Witness ==
    /\ Len(hist.popped) >= 2
    /\ Len(hist.redownload_accepted) >= hist.popped[2][1] - sync.chain_start

\* C5 as stated: |header_commitments| <= max_commitments in every reachable
\* state, the states inside a ProcessNextHeaders call included.
C5_CommitmentsWithinCapAtEveryMoment ==
    Len(sync.header_commitments) <= sync.max_commitments

\* C5 amended: |header_commitments| <= max_commitments + 1 in every state and
\* <= max_commitments whenever no call is in progress; the extra commitment is
\* there only between the push that exceeds the cap and the Finalize of the
\* same, failing call.
C5_CommitmentsWithinCapBetweenCalls ==
    /\ Len(sync.header_commitments) <= sync.max_commitments + 1
    /\ pc = "idle" => Len(sync.header_commitments) <= sync.max_commitments
    /\ Len(sync.header_commitments) > sync.max_commitments =>
          pc = "return" /\ ~ret.success /\ hist.entry_state = "PRESYNC"

\* the push that exceeds the cap has happened
C5_Witness ==
    Len(sync.header_commitments) = sync.max_commitments + 1

\* C6 as stated: once max_commitments * HEADER_COMMITMENT_PERIOD headers have
\* been processed in PRESYNC without reaching the work threshold, the cap has
\* triggered and the instance is FINAL.
C6_CapTriggeredAfterMaxTimesPeriod ==
    ( /\ pc = "idle"
      /\ hist.presync_headers >= sync.max_commitments * HEADER_COMMITMENT_PERIOD
      /\ ~hist.work_observed )
    => sync.download_state = "FINAL"

\* C6 amended: the cap triggers at the (max_commitments + 1)-th commitment:
\* at most (max_commitments + 1) * HEADER_COMMITMENT_PERIOD - 1 headers are
\* accepted in PRESYNC, the call in which that commitment is pushed fails, and
\* once (max_commitments + 1) * HEADER_COMMITMENT_PERIOD headers have been
\* processed the instance is no longer in PRESYNC.
C6_CapTriggeredAtNextCommitment ==
    /\ Len(hist.presync_accepted) <=
          (sync.max_commitments + 1) * HEADER_COMMITMENT_PERIOD - 1
    /\ Len(hist.pushed) > sync.max_commitments =>
          /\ ~ret.success
          /\ pc = "return" \/ sync.download_state = "FINAL"
    /\ ( pc = "idle" /\ hist.presync_headers >=
                           (sync.max_commitments + 1) * HEADER_COMMITMENT_PERIOD )
       => sync.download_state # "PRESYNC"

\* the cap triggered after max_commitments * HEADER_COMMITMENT_PERIOD headers
\* had been accepted
C6_Witness ==
    /\ sync.download_state = "FINAL"
    /\ Len(hist.pushed) = sync.max_commitments + 1
    /\ Len(hist.presync_accepted) >= sync.max_commitments * HEADER_COMMITMENT_PERIOD

\* C7 as stated: whatever the batch and the phase on entry, a result with
\* success = false leaves the instance FINAL.
C7_FailureLeavesFinal ==
    (pc = "idle" /\ hist.entry_state # "NONE" /\ ~ret.success)
    => sync.download_state = "FINAL"

\* C7 amended: for every call with a non-empty batch, whatever the phase on
\* entry, a result with success = false leaves the instance FINAL.
C7_FailureOfNonEmptyBatchLeavesFinal ==
    (pc = "idle" /\ hist.entry_state # "NONE" /\ ~hist.batch_empty /\ ~ret.success)
    => sync.download_state = "FINAL"

\* a non-empty batch failed in REDOWNLOAD and the call has returned
C7_Witness ==
    /\ pc = "idle"
    /\ hist.entry_state = "REDOWNLOAD"
    /\ ~hist.batch_empty
    /\ ~ret.success

\* C8: a result with success = false carries no headers and request_more =
\* false; a call in which a header fails releases nothing and leaves the
\* instance FINAL with an empty buffer, and nothing is released by a FINAL
\* instance, so the headers buffered before the failure are never released.
C8_NoPartialResultOnFailure ==
    /\ [](~ret.success => ret.pow_validated_headers = << >> /\ ~ret.request_more)
    /\ [](sync.download_state = "FINAL" => sync.redownloaded_headers = << >>)
    /\ [][/\ (~ret.success \/ sync.download_state = "FINAL")
               => hist.released' = hist.released
          /\ (pc = "return" /\ ~ret.success)
               => /\ sync'.download_state = "FINAL"
                  /\ sync'.redownloaded_headers = << >>]_vars

\* the second header of a REDOWNLOAD batch failed while headers were buffered
C8_Witness ==
    /\ pc = "return"
    /\ hist.entry_state = "REDOWNLOAD"
    /\ ~ret.success
    /\ pos = 2
    /\ Len(sync.redownloaded_headers) >= 2

\* C9: FINAL is absorbing: a step taken on a FINAL instance changes no field of
\* it, a ProcessNextHeaders call on it returns success = false, request_more =
\* false and no headers, and NextHeadersRequestLocator returns an empty locator.
C9_FinalIsAbsorbing ==
    /\ [](sync.download_state = "FINAL" =>
            pc = "idle" /\ NextHeadersRequestLocator(sync) = << >>)
    /\ [][sync.download_state = "FINAL" =>
            /\ sync' = sync
            /\ ret' # ret \/ hist'.entry_state # hist.entry_state
                         \/ hist'.batch_empty # hist.batch_empty =>
                  /\ ~ret'.success
                  /\ ~ret'.request_more
                  /\ ret'.pow_validated_headers = << >>]_vars

\* a ProcessNextHeaders call with headers was made on a FINAL instance
C9_Witness ==
    /\ sync.download_state = "FINAL"
    /\ hist.entry_state = "FINAL"
    /\ ~hist.batch_empty
    /\ hist.presync_accepted # << >>

\* all headers returned so far, the ones of the call that is returning included
ReleasedSoFar ==
    hist.released \o (IF pc = "return" THEN ret.pow_validated_headers ELSE << >>)

\* C10: the concatenation of the returned pow_validated_headers is a prefix of
\* the sequence of headers accepted in REDOWNLOAD, in the order received.
C10_ReleasedIsPrefixOfAccepted ==
    /\ Len(ReleasedSoFar) <= Len(hist.redownload_accepted)
    /\ \A i \in 1..Len(ReleasedSoFar) : ReleasedSoFar[i] = hist.redownload_accepted[i]

\* a second call returns headers
C10_Witness ==
    /\ pc = "return"
    /\ hist.released # << >>
    /\ ret.pow_validated_headers # << >>

\* the hash the next released header has to build on
ReleaseCursor ==
    IF ReleasedSoFar = << >> THEN ChainStartHash
    ELSE GetHash(ReleasedSoFar[Len(ReleasedSoFar)])

\* C11 as stated: every released header is rebuilt on the hash of the header
\* released before it and hashes like the header received at its position, and
\* redownload_buffer_first_prev_hash always equals the hash of the last
\* released header, or the chain_start hash when nothing was released yet.
C11_CursorAlwaysAtLastReleased ==
    /\ Chained(ReleasedSoFar, ChainStartHash)
    /\ \A i \in 1..Len(ReleasedSoFar) :
          GetHash(ReleasedSoFar[i]) = GetHash(hist.redownload_accepted[i])
    /\ sync.redownload_buffer_first_prev_hash = ReleaseCursor

\* C11 amended: the same for the released headers; the cursor equals the hash
\* of the last released header (the chain_start hash when nothing was released)
\* while the instance is in REDOWNLOAD, and is null in PRESYNC and in FINAL.
C11_CursorAtLastReleasedInRedownload ==
    /\ Chained(ReleasedSoFar, ChainStartHash)
    /\ \A i \in 1..Len(ReleasedSoFar) :
          /\ i <= Len(hist.redownload_accepted)
          /\ GetHash(ReleasedSoFar[i]) = GetHash(hist.redownload_accepted[i])
    /\ sync.download_state = "REDOWNLOAD" =>
          sync.redownload_buffer_first_prev_hash = ReleaseCursor
    /\ sync.download_state # "REDOWNLOAD" =>
          sync.redownload_buffer_first_prev_hash = NullHash

\* two headers were released and the instance is still redownloading
C11_Witness ==
    /\ sync.download_state = "REDOWNLOAD"
    /\ pc = "idle"
    /\ Len(hist.released) >= 2

\* the redownloaded chain has reached the work threshold
RedownloadWorkReached ==
    RedownloadWorkAfter(Len(hist.redownload_accepted)) >= sync.minimum_required_work

\* a REDOWNLOAD call has popped the headers that are ready and is about to return
AfterSuccessfulRedownloadCall ==
    pc = "return" /\ hist.entry_state = "REDOWNLOAD" /\ ret.success

C13_RedownloadBufferBounded ==
    /\ Len(sync.redownloaded_headers) <= REDOWNLOAD_BUFFER_SIZE + Len(received_headers)
    /\ pc \in {"redownload", "redownload_end"} =>
          Len(sync.redownloaded_headers) <= REDOWNLOAD_BUFFER_SIZE + (pos - 1)
    /\ pc = "idle" => Len(sync.redownloaded_headers) <= REDOWNLOAD_BUFFER_SIZE

\* a full buffer has taken every header of a batch of the largest size
C13_Witness ==
    /\ pc = "redownload_end"
    /\ Len(received_headers) = MaxBatch
    /\ Len(sync.redownloaded_headers) = REDOWNLOAD_BUFFER_SIZE + MaxBatch

\* C14: a REDOWNLOAD batch in which every header is accepted ends in one of
\* three ways: (1) the redownloaded work has reached minimum_required_work:
\* every accepted header has been returned, request_more = false and the
\* instance becomes FINAL, full batch or not; (2) otherwise, on a full batch,
\* request_more = true and the instance stays in REDOWNLOAD; (3) otherwise
\* success = true, request_more = false and the instance becomes FINAL, the
\* headers still buffered being dropped.
C14_OutcomeOfAcceptedRedownloadBatch ==
    [][AfterSuccessfulRedownloadCall =>
         /\ ret' = ret
         /\ IF RedownloadWorkReached
            THEN /\ ~ret.request_more
                 /\ ReleasedSoFar = hist.redownload_accepted
                 /\ sync'.download_state = "FINAL"
            ELSE IF full_headers_message
            THEN /\ ret.request_more
                 /\ sync'.download_state = "REDOWNLOAD"
                 /\ sync'.redownloaded_headers = sync.redownloaded_headers
            ELSE /\ ~ret.request_more
                 /\ sync'.download_state = "FINAL"
                 /\ sync'.redownloaded_headers = << >>
                 /\ Len(hist'.released) < Len(hist.redownload_accepted)]_vars

\* a full batch completes the redownload
C14_Witness ==
    /\ AfterSuccessfulRedownloadCall
    /\ RedownloadWorkReached
    /\ full_headers_message
    /\ Len(received_headers) = MaxBatch

\* the chain work after the first j headers accepted in PRESYNC
RECURSIVE PresyncWorkAfter(_)
PresyncWorkAfter(j) ==
    IF j = 0 THEN LocalChainWork(sync.chain_start)
    ELSE (PresyncWorkAfter(j - 1)
          + GetBlockProof(hist.presync_accepted[j].nBits)) % UintMod

\* a PRESYNC call has accepted every header of its batch and is about to return
AfterSuccessfulPresyncCall ==
    pc = "return" /\ hist.entry_state = "PRESYNC" /\ ret.success

\* C15: after a PRESYNC batch in which every header is accepted the instance
\* is in REDOWNLOAD iff the chain work at the end of the batch is at least
\* minimum_required_work (the headers after the one that crosses the threshold
\* are still processed in PRESYNC); request_more is true iff the batch is full
\* or the instance switched; otherwise the result is success = true,
\* request_more = false, no headers, and the instance is FINAL.
C15_OutcomeOfAcceptedPresyncBatch ==
    [][AfterSuccessfulPresyncCall =>
         LET reached == PresyncWorkAfter(Len(hist.presync_accepted))
                           >= sync.minimum_required_work
         IN  /\ ret' = ret
             /\ sync.current_chain_work = PresyncWorkAfter(Len(hist.presync_accepted))
             /\ ret.pow_validated_headers = << >>
             /\ sync'.download_state = "REDOWNLOAD" <=> reached
             /\ ret.request_more <=> (full_headers_message \/ reached)
             /\ (full_headers_message /\ ~reached) => sync'.download_state = "PRESYNC"
             /\ (~full_headers_message /\ ~reached) =>
                   /\ ~ret.request_more
                   /\ sync'.download_state = "FINAL"
                   /\ hist'.released = << >>]_vars

\* the threshold was crossed before the last header of a batch, which was
\* still processed in PRESYNC
C15_Witness ==
    /\ AfterSuccessfulPresyncCall
    /\ sync.download_state = "REDOWNLOAD"
    /\ PresyncWorkAfter(Len(hist.presync_accepted) - 1) >= sync.minimum_required_work

\* the index in presync_accepted of the last header of the PRESYNC batch whose
\* first header has index a
RECURSIVE PresyncBatchEnd(_)
PresyncBatchEnd(a) ==
    IF a < Len(hist.presync_accepted) /\ ~hist.presync_first[a + 1]
    THEN PresyncBatchEnd(a + 1)
    ELSE a

\* the index in presync_accepted of the first header of the current batch, if
\* the current REDOWNLOAD call replays a PRESYNC batch
ReplayStart == Len(hist.redownload_accepted) - pos + 2

\* the current REDOWNLOAD call is an honest replay: the headers accepted
\* before it are the PRESYNC headers before index ReplayStart, its batch is the
\* PRESYNC batch that began there, with the flag that batch must have had
\* (full, unless it was the last one), and the PRESYNC headers form a chain
InHonestReplayCall ==
    /\ pc \in {"redownload", "redownload_end", "return"}
    /\ hist.entry_state = "REDOWNLOAD"
    /\ Chained(hist.presync_accepted, ChainStartHash)
    /\ ReplayStart \in 1..Len(hist.presync_accepted)
    /\ hist.presync_first[ReplayStart]
    /\ SubSeq(hist.redownload_accepted, 1, ReplayStart - 1)
          = SubSeq(hist.presync_accepted, 1, ReplayStart - 1)
    /\ received_headers
          = SubSeq(hist.presync_accepted, ReplayStart, PresyncBatchEnd(ReplayStart))
    /\ PresyncBatchEnd(ReplayStart) < Len(hist.presync_accepted) => full_headers_message

GetMedianTimePast(chain, height) ==
    LET first == Max(0, height - (MTP_SPAN - 1))
        times == [i \in 1..(height - first + 1) |-> chain[first + i].nTime]
    IN  NthSmallest(times, (Len(times) \div 2) + 1)

\* the sum of the targets of up to n blocks back from the block of the given
\* height (the loop of pow.cpp:135-142)
RECURSIVE SumTargetsBack(_, _, _)
SumTargetsBack(chain, height, n) ==
    IF n = 0 \/ height < 0 THEN 0
    ELSE (SetCompact(chain[height + 1].nBits)
             + SumTargetsBack(chain, height - 1, n - 1)) % UintMod

\* GetNextWorkRequiredNew(pindexLast, pblock, params) for the block after the
\* last block of a chain (the empty chain: pindexLast == NULL)
GetNextWorkRequiredNew(chain, block_time, params) ==
    LET nProofOfWorkLimit == GetCompact(params.powLimit)
        last   == Len(chain) - 1
        first  == last - params.nPowAveragingWindow
        bnTot  == SumTargetsBack(chain, last, params.nPowAveragingWindow)
        bnAvg  == bnTot \div params.nPowAveragingWindow
    IN  IF chain = << >> THEN nProofOfWorkLimit
        ELSE IF params.fPowNoRetargeting THEN chain[Len(chain)].nBits
        ELSE IF /\ params.nPowAllowMinDifficultyBlocksAfterHeight # NoHeight
                /\ last >= params.nPowAllowMinDifficultyBlocksAfterHeight
                /\ block_time > chain[Len(chain)].nTime + PoWTargetSpacing(params) * 6
        THEN nProofOfWorkLimit
        ELSE IF first < 0 THEN nProofOfWorkLimit
        ELSE CalculateNextWorkRequiredNew(bnAvg, GetMedianTimePast(chain, last),
                                          GetMedianTimePast(chain, first), params)

\* the consensus parameters with the min-difficulty rule in force from the
\* first block on (nPowAllowMinDifficultyBlocksAfterHeight has a value)
MinDifficultyParams ==
    [ConsensusParams EXCEPT !.nPowAllowMinDifficultyBlocksAfterHeight = 0]

(***************************************************************************)
(* A sync above a long local chain                                         *)
(*                                                                         *)
(* The same ProcessNextHeaders, on an instance whose chain_start has all   *)
(* the ancestors ResetRetargetBuffersToChainStart asks for, or none, fed   *)
(* one header per message by a peer that picks the bits consensus requires *)
(* or the pow limit, and a time after or before the previous header's.     *)
(***************************************************************************)
\* height of chain_start: one more ancestor than the reset walks over
WindowChainStart == ConsensusParams.nPowAveragingWindow + 1 + MTP_SPAN + 1
\* largest number of headers the peer delivers to the instance
WindowMaxHeaders == 5

\* the local blocks 0..chain_start as a chain
LocalChain(chain_start) ==
    [i \in 1..(chain_start + 1) |-> [nTime |-> LocalTime(i - 1), nBits |-> LocalBits(i - 1)]]

\* the chain the next header extends: the local chain and the headers the
\* current phase has accepted
PredecessorChain ==
    LocalChain(sync.chain_start)
    \o [i \in 1..Len(IF sync.download_state = "REDOWNLOAD"
                     THEN hist.redownload_accepted ELSE hist.presync_accepted) |->
          LET hdr == (IF sync.download_state = "REDOWNLOAD"
                      THEN hist.redownload_accepted ELSE hist.presync_accepted)[i]
          IN  [nTime |-> hdr.nTime, nBits |-> hdr.nBits]]

\* the time steps of the peer's headers
WindowTimeSteps ==
    { PoWTargetSpacing(ConsensusParams), 0 - 6 * PoWTargetSpacing(ConsensusParams) }

\* the headers the peer may send on top of the predecessor chain
WindowPeerHeaders ==
    UNION { { [hashPrevBlock |-> HeadHash, nTime |-> HeadTime + step,
               nBits |-> bits, nNonce |-> 0] :
                bits \in { GetCompact(ConsensusParams.powLimit),
                           GetNextWorkRequiredNew(PredecessorChain, HeadTime + step,
                                                  ConsensusParams) } }
            : step \in WindowTimeSteps }

\* chain_start is the genesis block, or the block of height WindowChainStart
InitWindow ==
    /\ \E chain_start \in {0, WindowChainStart},
          commit_offset \in 0..(HEADER_COMMITMENT_PERIOD - 1) :
          sync = NewHeadersSyncState(chain_start,
                    LocalChainWork(chain_start)
                        + 3 * GetBlockProof(LocalBits(chain_start)),
                    commit_offset, 1, WindowMaxHeaders)
    /\ pc = "idle"
    /\ received_headers = << >>
    /\ full_headers_message = FALSE
    /\ pos = 0
    /\ ret = DefaultResult
    /\ hist = [ entry_state |-> "NONE", batch_empty |-> FALSE, delivered |-> 0,
                presync_accepted |-> << >>, presync_first |-> << >>,
                redownload_accepted |-> << >>, released |-> << >>,
                pushed |-> << >>, popped |-> << >>, work_observed |-> FALSE,
                presync_headers |-> 0, peak_commitments |-> 0,
                assume_failed |-> FALSE ]

\* a call of ProcessNextHeaders in PRESYNC with a full message of one header
CallPresyncWindow ==
    /\ pc = "idle"
    /\ sync.download_state = "PRESYNC"
    /\ hist.delivered < WindowMaxHeaders
    /\ \E hdr \in WindowPeerHeaders :
         /\ received_headers' = << hdr >>
         /\ full_headers_message' = TRUE
         /\ hist' = [hist EXCEPT !.entry_state = "PRESYNC",
                                 !.batch_empty = FALSE,
                                 !.assume_failed = FALSE,
                                 !.delivered = @ + 1]
    /\ ret' = DefaultResult
    /\ pc' = "presync"
    /\ pos' = 1
    /\ UNCHANGED sync

\* a call of ProcessNextHeaders in REDOWNLOAD with a full message of one header
CallRedownloadWindow ==
    /\ pc = "idle"
    /\ sync.download_state = "REDOWNLOAD"
    /\ hist.delivered < WindowMaxHeaders
    /\ \E hdr \in WindowPeerHeaders :
         /\ received_headers' = << hdr >>
         /\ full_headers_message' = TRUE
         /\ hist' = [hist EXCEPT !.entry_state = "REDOWNLOAD",
                                 !.batch_empty = FALSE,
                                 !.assume_failed = FALSE,
                                 !.delivered = @ + 1]
    /\ ret' = [DefaultResult EXCEPT !.success = TRUE]
    /\ pc' = "redownload"
    /\ pos' = 1
    /\ UNCHANGED sync

NextWindow ==
    \/ CallPresyncWindow
    \/ PresyncHeader
    \/ PresyncEnd
    \/ CallRedownloadWindow
    \/ RedownloadHeader
    \/ RedownloadEnd
    \/ Return

SpecWindow == InitWindow /\ [][NextWindow]_vars

\* the bits CheckWindowAwareRetarget expects of the next header: the pow limit
\* under the min-difficulty rule, else the sliding window's compact target
WindowExpectedBits(params, next_time, prev_time, next_height) ==
    IF /\ params.nPowAllowMinDifficultyBlocksAfterHeight # NoHeight
       /\ next_height - 1 >= params.nPowAllowMinDifficultyBlocksAfterHeight
       /\ next_time > prev_time + PoWTargetSpacing(params) * 6
    THEN GetCompact(params.powLimit)
    ELSE ExpectedCompact(params, sync.recent_nbits, sync.recent_mtp)

\* the times a next header may carry, relative to the previous header's
NextTimes(prev_time) ==
    { prev_time + step : step \in WindowTimeSteps \cup { 7 * PoWTargetSpacing(ConsensusParams) } }

\* C17: in PRESYNC and in REDOWNLOAD, for the next header at a height above
\* new_pow_diff_height + N of a chain extending chain_start, the bits the sync
\* engine expects (the sliding window's compact target, or the pow limit under
\* the min-difficulty rule) are the bits GetNextWorkRequiredNew returns for
\* the same predecessor chain, and CheckWindowAwareRetarget accepts a header
\* that carries them.
C17_SyncWindowMatchesConsensus ==
    (sync.download_state \in {"PRESYNC", "REDOWNLOAD"} /\ pc \in {"idle", "presync", "redownload"}) =>
        LET chain == PredecessorChain
            prev  == chain[Len(chain)]
            next_height == Len(chain)
        IN  next_height > ConsensusParams.nNewPowDiffHeight + ConsensusParams.nPowAveragingWindow =>
              \A params \in {ConsensusParams, MinDifficultyParams}, t \in NextTimes(prev.nTime) :
                 LET required == GetNextWorkRequiredNew(chain, t, params)
                 IN  /\ WindowExpectedBits(params, t, prev.nTime, next_height) = required
                     /\ CheckWindowAwareRetarget(params, sync.recent_nbits, sync.recent_mtp,
                                                 prev.nBits, required, t, prev.nTime, next_height)

\* a header of REDOWNLOAD is about to be checked whose consensus-required bits
\* are neither the pow limit nor the bits of the header before it
C17_Witness ==
    /\ sync.download_state = "REDOWNLOAD"
    /\ pc = "redownload"
    /\ hist.redownload_accepted # << >>
    /\ Len(sync.recent_mtp) = ConsensusParams.nPowAveragingWindow + 1
    /\ LET chain == PredecessorChain
           hdr == received_headers[pos]
       IN  /\ hdr.nBits = GetNextWorkRequiredNew(chain, hdr.nTime, ConsensusParams)
           /\ hdr.nBits # GetCompact(ConsensusParams.powLimit)
           /\ hdr.nBits # chain[Len(chain)].nBits
           /\ GetMedianTimePast(chain, Len(chain) - 1)
                 # chain[Len(chain) - (MTP_SPAN \div 2)].nTime

\* the inputs CheckWindowAwareRetarget is applied to in a state: both
\* parameter sets, the last height of the activation window and the next
\* header's, times on both sides of the min-difficulty delay, and bits at,
\* next to and far from the expected target
RetargetHeights ==
    { ConsensusParams.nNewPowDiffHeight + ConsensusParams.nPowAveragingWindow,
      Len(PredecessorChain), Len(PredecessorChain) + 1 }

RetargetTimes(prev_time) ==
    { prev_time + PoWTargetSpacing(ConsensusParams),
      prev_time + 7 * PoWTargetSpacing(ConsensusParams) }

RetargetBits(params) ==
    LET exp == IF Len(sync.recent_mtp) = 0 THEN params.powLimit
               ELSE SetCompact(ExpectedCompact(params, sync.recent_nbits, sync.recent_mtp))
    IN  { GetCompact(params.powLimit),
          GetCompact(exp + 4), GetCompact(exp + 5),
          GetCompact(Max(0, exp - 4)), GetCompact(Max(0, exp - 5)),
          GetCompact(exp \div 8) }

\* the policy of the retarget check, case by case
RetargetPolicy(params, prev_bits, next_bits, next_time, prev_time, next_height) ==
    LET N == params.nPowAveragingWindow
        warm_up == Len(sync.recent_nbits) < N \/ Len(sync.recent_mtp) < N + 1
        activation == next_height <= params.nNewPowDiffHeight + N
        min_difficulty ==
            /\ params.nPowAllowMinDifficultyBlocksAfterHeight # NoHeight
            /\ next_height - 1 >= params.nPowAllowMinDifficultyBlocksAfterHeight
            /\ next_time > prev_time + 6 * PoWTargetSpacing(params)
        exp == SetCompact(ExpectedCompact(params, sync.recent_nbits, sync.recent_mtp))
        obs == SetCompact(next_bits)
    IN  \/ warm_up
        \/ ~warm_up /\ activation
        \/ ~warm_up /\ ~activation /\ min_difficulty
              /\ next_bits = GetCompact(params.powLimit)
        \/ ~warm_up /\ ~activation /\ ~min_difficulty
              /\ \/ (Max(0, exp - 4) <= obs /\ obs <= exp + 4)
                 \/ PermittedDifficultyTransition(params, next_height, prev_bits, next_bits)

\* C18: CheckWindowAwareRetarget decides by the ordered policy: accept during
\* warm-up (|recent_bits| < N or |recent_mtp| < N+1); else accept up to height
\* new_pow_diff_height + N whatever the bits; else under the min-difficulty
\* rule accept iff the bits are the pow limit's; else accept iff the decoded
\* target is within 4 of the expected target or PermittedDifficultyTransition
\* accepts; otherwise reject.
C18_CheckFollowsOrderedPolicy ==
    pc \in {"presync", "redownload"} =>
        LET chain == PredecessorChain
            prev  == chain[Len(chain)]
        IN  \A params \in {ConsensusParams, MinDifficultyParams},
               next_height \in RetargetHeights,
               next_time \in RetargetTimes(prev.nTime) :
              \A next_bits \in RetargetBits(params) :
                 CheckWindowAwareRetarget(params, sync.recent_nbits, sync.recent_mtp,
                                          prev.nBits, next_bits, next_time, prev.nTime, next_height)
                   <=> RetargetPolicy(params, prev.nBits, next_bits, next_time, prev.nTime, next_height)

\* a header is about to be checked against a full window above the activation
\* window, where the check rejects bits far from the expected target, accepts
\* bits outside the slack through PermittedDifficultyTransition, and under the
\* min-difficulty rule rejects the expected bits of a late header
C18_Witness ==
    /\ pc \in {"presync", "redownload"}
    /\ Len(sync.recent_nbits) = ConsensusParams.nPowAveragingWindow
    /\ Len(sync.recent_mtp) = ConsensusParams.nPowAveragingWindow + 1
    /\ LET chain == PredecessorChain
           prev  == chain[Len(chain)]
           next_height == Len(chain)
           exp  == SetCompact(ExpectedCompact(ConsensusParams, sync.recent_nbits, sync.recent_mtp))
           soon == prev.nTime + PoWTargetSpacing(ConsensusParams)
           late == prev.nTime + 7 * PoWTargetSpacing(ConsensusParams)
       IN  /\ next_height > ConsensusParams.nNewPowDiffHeight + ConsensusParams.nPowAveragingWindow
           /\ ~CheckWindowAwareRetarget(ConsensusParams, sync.recent_nbits, sync.recent_mtp,
                    prev.nBits, GetCompact(exp \div 8), soon, prev.nTime, next_height)
           /\ exp + 5 < SetCompact(prev.nBits)
           /\ CheckWindowAwareRetarget(ConsensusParams, sync.recent_nbits, sync.recent_mtp,
                    prev.nBits, prev.nBits, soon, prev.nTime, next_height)
           /\ CheckWindowAwareRetarget(ConsensusParams, sync.recent_nbits, sync.recent_mtp,
                    prev.nBits, GetCompact(exp + 4), soon, prev.nTime, next_height)
           /\ ~CheckWindowAwareRetarget(MinDifficultyParams, sync.recent_nbits, sync.recent_mtp,
                    prev.nBits, GetCompact(exp), late, prev.nTime, next_height)

(***************************************************************************)
(* The retarget functions on their own                                     *)
(*                                                                         *)
(* CalculateNextWorkRequiredNew applied to an average target and two MTPs, *)
(* and the window comparison of CheckWindowAwareRetarget applied to its    *)
(* result and the bits of a header, for the scaled parameters and for a    *)
(* pow limit whose compact encoding has an exponent above 3, as the        *)
(* networks' pow limits have.                                              *)
(***************************************************************************)
\* largest nLastBlockTime - nFirstBlockTime
MaxSpan == 84
\* number of average targets per parameter set
TargetSamples == 4
\* largest distance, in steps of the compact mantissa, between the expected
\* bits and a header's
MaxSteps == 5

\* consensus parameters with a pow limit of four bytes
WideParams == [ConsensusParams EXCEPT !.powLimit = 3 * Pow2(UintWidth - 2)]

\* the average targets: the pow limit and targets below it, and the largest
\* values of the word, which targets decoded from a peer's bits average to
AverageTargets(params) ==
    { params.powLimit - i * (params.powLimit \div 7) - i : i \in 0..(TargetSamples - 1) }
    \cup { UintMod - 1 - i * (UintMod \div 9) : i \in 0..(TargetSamples - 3) }

\* the exponent and the mantissa of a compact encoding
CompactSize(nCompact) == nCompact \div Pow2(24)
CompactMantissa(nCompact) == nCompact % Pow2(23)

InitRetarget ==
    /\ sync = NewHeadersSyncState(0, LocalChainWork(0), 0, 1, 1)
    /\ pc = "calculate"
    /\ received_headers = << >>
    /\ full_headers_message = FALSE
    /\ pos = 0
    /\ ret = [exp_compact |-> 0, within_slack |-> FALSE, old_compact |-> 0,
              permitted |-> FALSE, pow_ok |-> FALSE, pow_ok_tests |-> FALSE]
    /\ \E params \in {ConsensusParams, WideParams} :
         \E bnAvg \in AverageTargets(params), span \in (0 - 4)..MaxSpan :
            hist = [params |-> params, bnAvg |-> bnAvg,
                    nFirstBlockTime |-> LocalTime(0),
                    nLastBlockTime  |-> LocalTime(0) + span,
                    nHeight |-> 0, new_nbits |-> 0, hash |-> 0, wtf |-> FALSE]

\* pow.cpp:165-202 applied to the arguments
CalculateCall ==
    /\ pc = "calculate"
    /\ ret' = [ret EXCEPT !.exp_compact =
                  CalculateNextWorkRequiredNew(hist.bnAvg, hist.nLastBlockTime,
                                               hist.nFirstBlockTime, hist.params)]
    /\ pc' = "compare"
    /\ UNCHANGED << sync, received_headers, full_headers_message, pos, hist >>

\* headerssync.cpp:443-458 applied to the expected bits and to a header whose
\* bits are some steps of the mantissa away from them
CompareCall ==
    /\ pc = "compare"
    /\ \E steps \in (0 - MaxSteps)..MaxSteps :
         LET next_nbits == ret.exp_compact + steps
         IN  /\ CompactMantissa(ret.exp_compact) + steps \in 1..(Pow2(23) - 1)
             /\ received_headers' = << [NullHeader EXCEPT !.nBits = next_nbits] >>
             /\ ret' = [ret EXCEPT !.within_slack =
                           WithinSlack(SetCompact(ret.exp_compact), SetCompact(next_nbits))]
    /\ pc' = "compared"
    /\ UNCHANGED << sync, full_headers_message, pos, hist >>

\* the heights of pindexLast around the two height limits of the old retarget
OldHeights == { 4998, 4999, 5000, 9999, 10000, 10001 }

\* pow.cpp:204-244 applied to a block pindexLast of the chain, whose bits are
\* the compact form of a target that is at most the pow limit, and to the
\* time of the first block of the interval
CalculateOldCall ==
    /\ pc = "calculate"
    /\ hist.bnAvg <= hist.params.powLimit
    /\ hist.params.powLimit * 4 * hist.params.nPowTargetTimespan < UintMod
    /\ \E height \in OldHeights :
         /\ hist' = [hist EXCEPT !.nHeight = height]
         /\ ret' = [ret EXCEPT !.old_compact =
                       CalculateNextWorkRequiredOld(
                           [nHeight |-> height, nTime |-> hist.nLastBlockTime,
                            nBits |-> GetCompact(hist.bnAvg)],
                           hist.nFirstBlockTime, hist.params)]
    /\ pc' = "old_done"
    /\ UNCHANGED << sync, received_headers, full_headers_message, pos >>

\* the targets of the new bits of a transition from old_target: at and next
\* to the two limits, the old target and the pow limit
TransitionTargets(params, old_target) ==
    LET T  == params.nPowTargetTimespan
        lo == Min(params.powLimit, (old_target * (T \div 4)) \div T)
        hi == Min(params.powLimit, (old_target * (T * 4)) \div T)
    IN  { Max(0, lo - 1), lo, lo + 1, old_target, Max(0, hi - 1), hi, hi + 1,
          params.powLimit }

\* pow.cpp:248-308 applied to the bits of a block of the chain and to new
\* bits, at a height on and off a retarget boundary, with and without
\* fPowAllowMinDifficultyBlocks
PermittedCall ==
    /\ pc = "calculate"
    /\ hist.nLastBlockTime = hist.nFirstBlockTime
    /\ hist.bnAvg <= hist.params.powLimit
    /\ hist.params.powLimit * 4 * hist.params.nPowTargetTimespan < UintMod
    /\ \E height \in OldHeights, allow \in BOOLEAN :
         \E new_target \in TransitionTargets(hist.params, SetCompact(GetCompact(hist.bnAvg))) :
            LET params == [hist.params EXCEPT !.fPowAllowMinDifficultyBlocks = allow]
            IN  /\ hist' = [hist EXCEPT !.params = params, !.nHeight = height,
                                        !.new_nbits = GetCompact(new_target)]
                /\ ret' = [ret EXCEPT !.permitted =
                              PermittedDifficultyTransition(params, height,
                                  GetCompact(hist.bnAvg), GetCompact(new_target))]
    /\ pc' = "permitted"
    /\ UNCHANGED << sync, received_headers, full_headers_message, pos >>

\* the bits of a header: of the pow limit, one step above it and of half of
\* it; with a zero mantissa and with one that is shifted out; with the sign
\* bit; and two that overflow the word, to a small target and to zero
ProofBits(params) ==
    { GetCompact(params.powLimit), GetCompact(params.powLimit) + 1,
      GetCompact(params.powLimit \div 2),
      0, 3 * Pow2(24), Pow2(24) + 1,
      3 * Pow2(24) + Pow2(23) + 1,
      (UintWidth \div 8 + 1) * Pow2(24) + Pow2(16) + 1,
      (UintWidth \div 8 + 3) * Pow2(24) + 1 }

\* the hashes of a header, as integers: zero, the largest, and the ones at
\* and next to the target
ProofHashes(nBits) ==
    { 0, UintMod - 1 } \cup
    { h \in { SetCompact(nBits) - 1, SetCompact(nBits), SetCompact(nBits) + 1 } :
        h >= 0 /\ h < UintMod }

\* pow.cpp:310-356 applied to a hash and to bits
CheckProofCall ==
    /\ pc = "calculate"
    /\ hist.nLastBlockTime = hist.nFirstBlockTime
    /\ hist.bnAvg = hist.params.powLimit
    /\ \E nBits \in ProofBits(hist.params), wtf \in BOOLEAN :
         \E hash \in ProofHashes(nBits) :
            /\ hist' = [hist EXCEPT !.new_nbits = nBits, !.hash = hash, !.wtf = wtf]
            /\ ret' = [ret EXCEPT
                         !.pow_ok = CheckProofOfWork(hash, nBits, hist.params),
                         !.pow_ok_tests = CheckProofOfWorkTests(hash, nBits, hist.params, wtf)]
    /\ pc' = "proof"
    /\ UNCHANGED << sync, received_headers, full_headers_message, pos >>

NextRetarget ==
    \/ CalculateCall
    \/ CompareCall
    \/ CalculateOldCall
    \/ PermittedCall
    \/ CheckProofCall

SpecRetarget == InitRetarget /\ [][NextRetarget]_vars

\* the distance of two compact encodings of the same exponent, in steps of
\* the mantissa
MantissaSteps(a, b) ==
    IF CompactMantissa(a) > CompactMantissa(b)
    THEN CompactMantissa(a) - CompactMantissa(b)
    ELSE CompactMantissa(b) - CompactMantissa(a)

\* C19: a header whose bits are at most 4 steps of the compact mantissa away
\* from the expected bits, at the same exponent, passes the window comparison
\* of CheckWindowAwareRetarget.
C19_FourCompactStepsPassWindow ==
    pc = "compared" =>
        LET next_nbits == received_headers[1].nBits
        IN  (/\ CompactSize(next_nbits) = CompactSize(ret.exp_compact)
             /\ MantissaSteps(next_nbits, ret.exp_compact) <= 4)
                => ret.within_slack

\* the damped timespan: the averaging timespan plus a quarter (toward zero)
\* of the excess of the actual timespan, clamped to the adjustment limits
DampedTimespan(params, mtp_last, mtp_first) ==
    LET avg == params.nPowAveragingWindow * params.nPostBlossomPowTargetSpacing
        d   == avg + TruncDiv(mtp_last - mtp_first - avg, 4)
        lo  == (avg * (100 - params.nPowMaxAdjustUp)) \div 100
        hi  == (avg * (100 + params.nPowMaxAdjustDown)) \div 100
    IN  Max(lo, Min(hi, d))

\* C20 as stated: CalculateNextWorkRequiredNew returns the compact form of
\* min(pow_limit, floor(bnAvg * damped / averaging_timespan)), for every bnAvg
\* and every pair of MTPs.
C20_ResultIsFloorOfProduct ==
    pc = "compare" =>
        LET avg == hist.params.nPowAveragingWindow * hist.params.nPostBlossomPowTargetSpacing
            damped == DampedTimespan(hist.params, hist.nLastBlockTime, hist.nFirstBlockTime)
        IN  ret.exp_compact
               = GetCompact(Min(hist.params.powLimit, (hist.bnAvg * damped) \div avg))

\* C20 (amended): CalculateNextWorkRequiredNew returns the compact form of
\* min(pow_limit, floor(bnAvg / averaging_timespan) * damped): the average is
\* divided by the averaging timespan first, and the quotient multiplied by
\* the damped timespan, for every bnAvg and every pair of MTPs.
C20_ResultIsFloorOfQuotientTimesDamped ==
    pc = "compare" =>
        LET avg == hist.params.nPowAveragingWindow * hist.params.nPostBlossomPowTargetSpacing
            damped == DampedTimespan(hist.params, hist.nLastBlockTime, hist.nFirstBlockTime)
        IN  ret.exp_compact
               = GetCompact(Min(hist.params.powLimit,
                                ((hist.bnAvg \div avg) * damped) % UintMod))

\* the function was applied, below the pow limit and between the clamps, to
\* an average that the averaging timespan does not divide, and the compact
\* form of the floor of the product is another one
C20_Witness ==
    /\ pc = "compare"
    /\ LET avg == hist.params.nPowAveragingWindow * hist.params.nPostBlossomPowTargetSpacing
           damped == DampedTimespan(hist.params, hist.nLastBlockTime, hist.nFirstBlockTime)
       IN  /\ hist.bnAvg % avg # 0
           /\ damped < avg
           /\ damped > (avg * (100 - hist.params.nPowMaxAdjustUp)) \div 100
           /\ (hist.nLastBlockTime - hist.nFirstBlockTime - avg) % 4 # 0
           /\ ret.exp_compact # GetCompact((hist.bnAvg * damped) \div avg)
           /\ ret.exp_compact = GetCompact((hist.bnAvg \div avg) * damped)

\* C21: for every average target, also one above the pow limit or one whose
\* retarget wraps around the word, and every pair of MTPs, the compact value
\* CalculateNextWorkRequiredNew returns decodes to a target that is at most
\* the pow limit.
C21_ResultDecodesWithinPowLimit ==
    pc \in {"compare", "compared"} =>
        /\ ~CompactNegative(ret.exp_compact)
        /\ ~CompactOverflow(ret.exp_compact)
        /\ SetCompact(ret.exp_compact) <= hist.params.powLimit

\* the function was applied to an average above the pow limit whose retarget
\* wrapped around the word to a value below the pow limit
C21_Witness ==
    /\ pc = "compare"
    /\ hist.bnAvg > hist.params.powLimit
    /\ LET avg == AveragingWindowTimespan(hist.params)
           damped == DampedTimespan(hist.params, hist.nLastBlockTime, hist.nFirstBlockTime)
           product == (hist.bnAvg \div avg) * damped
       IN  /\ product >= UintMod
           /\ product % UintMod < hist.params.powLimit
           /\ SetCompact(ret.exp_compact) < SetCompact(GetCompact(hist.params.powLimit))

\* the limits of the actual timespan for the block of height H
OldMinTimespan(H, T) ==
    IF H > 10000 THEN T \div 4 ELSE IF H > 5000 THEN T \div 8 ELSE T \div 16

\* C22: CalculateNextWorkRequiredOld for the block of height H = pindexLast's
\* height + 1 clamps the actual timespan to [T/4, 4T] when H > 10000, to
\* [T/8, 4T] when 5000 < H <= 10000 and to [T/16, 4T] when H <= 5000, and
\* returns the compact form of min(pow_limit, old_target * clamped / T).
C22_OldRetargetClampsByHeight ==
    pc = "old_done" =>
        LET H == hist.nHeight + 1
            T == hist.params.nPowTargetTimespan
            actual == hist.nLastBlockTime - hist.nFirstBlockTime
            clamped == Max(OldMinTimespan(H, T), Min(4 * T, actual))
            old_target == SetCompact(GetCompact(hist.bnAvg))
        IN  ret.old_compact
               = GetCompact(Min(hist.params.powLimit, (old_target * clamped) \div T))

\* the function was applied for the block of height 5001 to an actual
\* timespan below T/8, and returned the old target times T/8 over T
C22_Witness ==
    /\ pc = "old_done"
    /\ LET H == hist.nHeight + 1
           T == hist.params.nPowTargetTimespan
           actual == hist.nLastBlockTime - hist.nFirstBlockTime
       IN  /\ H = 5001
           /\ actual < T \div 8
           /\ hist.bnAvg < hist.params.powLimit
           /\ SetCompact(ret.old_compact) = (SetCompact(GetCompact(hist.bnAvg)) * (T \div 8)) \div T
           /\ SetCompact(ret.old_compact) # (SetCompact(GetCompact(hist.bnAvg)) * (T \div 4)) \div T
           /\ SetCompact(ret.old_compact) # (SetCompact(GetCompact(hist.bnAvg)) * (T \div 16)) \div T

\* the compact-rounded value of a target
CompactRounded(target) == SetCompact(GetCompact(target))

\* C23: PermittedDifficultyTransition returns true whenever
\* pow_allow_min_difficulty_blocks is set; otherwise, on a retarget boundary
\* (height % interval = 0), it returns true iff the target of the new bits lies
\* between the compact-rounded values of min(pow_limit, old * (T/4) / T) and
\* min(pow_limit, old * (4T) / T), both included; otherwise it returns true iff
\* the new bits are the old bits.
C23_PermittedTransitionPolicy ==
    pc = "permitted" =>
        LET params   == hist.params
            T        == params.nPowTargetTimespan
            interval == T \div params.nPowTargetSpacing
            old_bits == GetCompact(hist.bnAvg)
            old      == SetCompact(old_bits)
            new      == SetCompact(hist.new_nbits)
            lowest   == CompactRounded(Min(params.powLimit, (old * (T \div 4)) \div T))
            highest  == CompactRounded(Min(params.powLimit, (old * (4 * T)) \div T))
        IN  ret.permitted <=>
               \/ params.fPowAllowMinDifficultyBlocks
               \/ /\ ~params.fPowAllowMinDifficultyBlocks
                  /\ hist.nHeight % interval = 0
                  /\ lowest <= new /\ new <= highest
               \/ /\ ~params.fPowAllowMinDifficultyBlocks
                  /\ hist.nHeight % interval # 0
                  /\ hist.new_nbits = old_bits

\* the function rejected, off a boundary and without the min-difficulty flag,
\* new bits that differ from the old bits and lie between the two limits
C23_Witness ==
    /\ pc = "permitted"
    /\ ~hist.params.fPowAllowMinDifficultyBlocks
    /\ hist.nHeight % (hist.params.nPowTargetTimespan \div hist.params.nPowTargetSpacing) # 0
    /\ hist.new_nbits # GetCompact(hist.bnAvg)
    /\ SetCompact(hist.new_nbits) = SetCompact(GetCompact(hist.bnAvg)) \div 4 + 1
    /\ ~ret.permitted

\* C24: CheckProofOfWork returns true iff the target decoded from the bits is
\* non-negative, non-zero, not overflowing and at most the pow limit, and the
\* hash as an integer is at most that target; CheckProofOfWorkTests returns the
\* same for every input, whatever its flag.
C24_ProofOfWorkCheck ==
    pc = "proof" =>
        /\ ret.pow_ok <=>
              /\ ~CompactNegative(hist.new_nbits)
              /\ SetCompact(hist.new_nbits) # 0
              /\ ~CompactOverflow(hist.new_nbits)
              /\ SetCompact(hist.new_nbits) <= hist.params.powLimit
              /\ hist.hash <= SetCompact(hist.new_nbits)
        /\ ret.pow_ok_tests = ret.pow_ok

\* both functions rejected a hash below a non-zero target within the pow
\* limit for the overflow of the bits alone, the flag of the second one set
C24_Witness ==
    /\ pc = "proof"
    /\ hist.wtf
    /\ CompactOverflow(hist.new_nbits)
    /\ ~CompactNegative(hist.new_nbits)
    /\ SetCompact(hist.new_nbits) # 0
    /\ SetCompact(hist.new_nbits) <= hist.params.powLimit
    /\ hist.hash < SetCompact(hist.new_nbits)
    /\ ~ret.pow_ok
    /\ ~ret.pow_ok_tests

\* the hash of the last header accepted in the current phase, the hash of
\* chain_start when the phase has accepted none
LastAcceptedHash ==
    LET accepted == IF sync.download_state = "REDOWNLOAD"
                    THEN hist.redownload_accepted ELSE hist.presync_accepted
    IN  IF accepted = << >> THEN GetBlockHash(sync.chain_start)
        ELSE GetHash(accepted[Len(accepted)])

\* C25: on an instance that is not FINAL, NextHeadersRequestLocator returns the
\* hash of last_header_received in PRESYNC, or redownload_buffer_last_hash in
\* REDOWNLOAD, followed by the locator entries of chain_start; the first entry
\* is the hash of the last header accepted in the current phase, and the hash
\* of chain_start right after construction and right after the switch (read
\* between two calls of ProcessNextHeaders, where a caller can ask for it).
C25_LocatorStartsAtPhaseHead ==
    (pc = "idle" /\ sync.download_state # "FINAL") =>
        LET head == IF sync.download_state = "PRESYNC"
                    THEN GetHash(sync.last_header_received)
                    ELSE sync.redownload_buffer_last_hash
        IN  /\ NextHeadersRequestLocator(sync)
                  = << head >> \o LocatorEntries(sync.chain_start)
            /\ head = LastAcceptedHash

\* between two calls in REDOWNLOAD, after headers were accepted in it: the
\* locator starts at the last of them, which is neither chain_start nor the
\* last header of PRESYNC
C25_Witness ==
    /\ pc = "idle"
    /\ sync.download_state = "REDOWNLOAD"
    /\ hist.redownload_accepted # << >>
    /\ NextHeadersRequestLocator(sync)[1] = LastAcceptedHash
    /\ LastAcceptedHash # GetBlockHash(sync.chain_start)
    /\ LastAcceptedHash # GetHash(hist.presync_accepted[Len(hist.presync_accepted)])

\* C26 as stated: Finalize can be called in any phase: a call in PRESYNC,
\* REDOWNLOAD or FINAL violates no internal consistency check and leaves the
\* instance FINAL, and a second Finalize changes nothing.
C26_FinalizeSafeInAnyPhase ==
    [][FinalizeCall =>
          /\ ~hist'.assume_failed
          /\ sync'.download_state = "FINAL"
          /\ Finalize(sync') = sync']_vars

\* C26 (amended): Finalize leaves the instance FINAL in any phase, and the
\* state after Finalize(); Finalize() is the state after one Finalize(); a
\* call in PRESYNC or REDOWNLOAD violates no internal consistency check, while
\* a call on a FINAL instance violates Assume(m_download_state != FINAL) and
\* changes no field.
C26_FinalizeIdempotentAssumeNotFinal ==
    [][FinalizeCall =>
          /\ hist'.assume_failed <=> sync.download_state = "FINAL"
          /\ sync'.download_state = "FINAL"
          /\ Finalize(sync') = sync'
          /\ sync.download_state = "FINAL" => sync' = sync]_vars

\* Finalize was called on an instance that was FINAL already: the instance is
\* FINAL and the Assume of the last operation failed, which was no call of
\* ProcessNextHeaders
C26_Witness ==
    /\ pc = "idle"
    /\ sync.download_state = "FINAL"
    /\ hist.assume_failed
    /\ hist.entry_state \in {"PRESYNC", "REDOWNLOAD"}
    /\ ~hist.batch_empty
    /\ Finalize(sync) = sync

\* C27: whenever the instance is FINAL, all of its buffers are released:
\* header_commitments, redownloaded_headers, recent_bits, recent_mtp and the
\* MTP time history are empty, and last_header_received and both redownload
\* hashes are null.
C27_FinalReleasesAllBuffers ==
    sync.download_state = "FINAL" =>
        /\ sync.header_commitments = << >>
        /\ sync.redownloaded_headers = << >>
        /\ sync.recent_nbits = << >>
        /\ sync.recent_mtp = << >>
        /\ sync.last11_times = << >>
        /\ sync.last_header_received = NullHeader
        /\ sync.redownload_buffer_last_hash = NullHash
        /\ sync.redownload_buffer_first_prev_hash = NullHash

(***************************************************************************)
(* PRESYNC from the genesis block                                          *)
(*                                                                         *)
(* The same ProcessNextHeaders on an instance whose chain_start is the     *)
(* genesis block, so that the first headers are checked during warm-up and *)
(* in the activation window, fed by a peer that picks the bits of the pow  *)
(* limit or the bits of the smallest target.                               *)
(***************************************************************************)
\* largest number of headers the peer delivers to the instance
WorkMaxHeaders == 4

\* the headers the peer may send on top of a header
WorkPeerHeaders(prev_hash, prev_time) ==
    { [hashPrevBlock |-> prev_hash,
       nTime  |-> prev_time + PoWTargetSpacing(ConsensusParams),
       nBits  |-> bits, nNonce |-> 0] :
         bits \in { GetCompact(ConsensusParams.powLimit), GetCompact(1) } }

\* the headers messages of n headers, each header built on the one before it
RECURSIVE WorkBatches(_, _, _)
WorkBatches(n, prev_hash, prev_time) ==
    IF n = 0 THEN { << >> }
    ELSE UNION { { << h >> \o rest : rest \in WorkBatches(n - 1, GetHash(h), h.nTime) }
                 : h \in WorkPeerHeaders(prev_hash, prev_time) }

InitWork ==
    /\ \E commit_offset \in 0..(HEADER_COMMITMENT_PERIOD - 1) :
          sync = NewHeadersSyncState(0,
                    LocalChainWork(0) + 3 * GetBlockProof(LocalBits(0)),
                    commit_offset, 1, WorkMaxHeaders)
    /\ pc = "idle"
    /\ received_headers = << >>
    /\ full_headers_message = FALSE
    /\ pos = 0
    /\ ret = DefaultResult
    /\ hist = [ entry_state |-> "NONE", batch_empty |-> FALSE, delivered |-> 0,
                presync_accepted |-> << >>, presync_first |-> << >>,
                redownload_accepted |-> << >>, released |-> << >>,
                pushed |-> << >>, popped |-> << >>, work_observed |-> FALSE,
                presync_headers |-> 0, peak_commitments |-> 0,
                assume_failed |-> FALSE ]

\* a call of ProcessNextHeaders in PRESYNC with a connected message
CallPresyncWork ==
    /\ pc = "idle"
    /\ sync.download_state = "PRESYNC"
    /\ \E n \in 1..MaxBatch, full \in FullFlags :
         /\ hist.delivered + n <= WorkMaxHeaders
         /\ \E batch \in WorkBatches(n, HeadHash, HeadTime) :
              /\ received_headers' = batch
              /\ full_headers_message' = full
              /\ hist' = [hist EXCEPT !.entry_state = "PRESYNC",
                                      !.batch_empty = FALSE,
                                      !.assume_failed = FALSE,
                                      !.delivered = @ + n]
    /\ ret' = DefaultResult
    /\ pc' = "presync"
    /\ pos' = 1
    /\ UNCHANGED sync

NextWork ==
    \/ CallPresyncWork
    \/ PresyncHeader
    \/ PresyncEnd
    \/ Return

SpecWork == InitWork /\ [][NextWork]_vars

\* C28: across any sequence of accepted PRESYNC headers and batches,
\* current_chain_work never decreases, for any header bits that the
\* admissibility check lets through.
C28_PresyncWorkNeverDecreases ==
    [][(sync.download_state = "PRESYNC" /\ sync'.download_state = "PRESYNC")
          => sync'.current_chain_work >= sync.current_chain_work]_vars

(***************************************************************************)
(* ComputeMtpForNewTime on a history that starts empty                     *)
(***************************************************************************)
\* largest number of times fed to ComputeMtpForNewTime
MtpMaxFed == 12

\* the first time fed, and the differences between a time and the next one
MtpFirstTime == LocalTime(0)
MtpTimeSteps == {0 - 2, 1, 3}

InitMtp ==
    /\ sync = ClearRetargetBuffers(NewHeadersSyncState(0, LocalChainWork(0), 0, 1, 1))
    /\ pc = "mtp"
    /\ received_headers = << >>
    /\ full_headers_message = FALSE
    /\ pos = 0
    /\ ret = [mtp |-> 0]
    /\ hist = [fed |-> << >>, mtps |-> << >>]

\* headerssync.cpp:383-395 applied to the next time
ComputeMtpCall ==
    /\ pc = "mtp"
    /\ Len(hist.fed) < MtpMaxFed
    /\ \E new_time \in (IF hist.fed = << >> THEN {MtpFirstTime}
                        ELSE {hist.fed[Len(hist.fed)] + d : d \in MtpTimeSteps}) :
         LET mtp == ComputeMtpForNewTime(sync.last11_times, new_time)
         IN  /\ sync' = [sync EXCEPT !.last11_times = Last11After(@, new_time)]
             /\ ret' = [mtp |-> mtp]
             /\ hist' = [fed |-> Append(hist.fed, new_time),
                         mtps |-> Append(hist.mtps, mtp)]
    /\ UNCHANGED << pc, received_headers, full_headers_message, pos >>

NextMtp == ComputeMtpCall

SpecMtp == InitMtp /\ [][NextMtp]_vars

\* the times fed so far are strictly increasing
StrictlyIncreasing(seq) ==
    \A i \in 1..(Len(seq) - 1) : seq[i] < seq[i + 1]

\* C29: feeding ComputeMtpForNewTime a strictly increasing sequence of times,
\* starting from an empty history, yields a non-decreasing sequence of
\* returned MTP values, for sequences shorter and longer than eleven entries.
C29_IncreasingTimesGiveNonDecreasingMtp ==
    (pc = "mtp" /\ StrictlyIncreasing(hist.fed))
        => \A i \in 1..(Len(hist.mtps) - 1) : hist.mtps[i] <= hist.mtps[i + 1]

\* more than eleven increasing times with unequal steps were fed, the oldest
\* was dropped and the MTP moved with the last of them
C29_Witness ==
    /\ pc = "mtp"
    /\ Len(hist.fed) > MTP_SPAN
    /\ StrictlyIncreasing(hist.fed)
    /\ \E i \in 2..Len(hist.fed) : hist.fed[i] - hist.fed[i - 1] = 1
    /\ \E i \in 2..Len(hist.fed) : hist.fed[i] - hist.fed[i - 1] = 3
    /\ Len(sync.last11_times) = MTP_SPAN
    /\ sync.last11_times[1] = hist.fed[Len(hist.fed) - MTP_SPAN + 1]
    /\ hist.mtps[Len(hist.mtps)] > hist.mtps[Len(hist.mtps) - 1]

\* the number of entries of a history below a value, and at or below it
CountBelow(times, v) ==
    Cardinality({i \in 1..Len(times) : times[i] < v})

CountAtMost(times, v) ==
    Cardinality({i \in 1..Len(times) : times[i] <= v})

\* the last MTP_SPAN times fed, the last of them being the candidate
PresentTimes ==
    TrimFront(hist.fed, MTP_SPAN)

\* C30 (as stated): ComputeMtpForNewTime first appends the candidate time to
\* the history, dropping the oldest entry when more than eleven are present,
\* and then returns the median of the present entries; when the number of
\* present entries is even, the value returned is the lower median, the
\* smaller of the two middle values.
C30_MedianAfterPushLowerWhenEven ==
    (pc = "mtp" /\ hist.fed # << >>) =>
        LET n == Len(PresentTimes)
            k == IF n % 2 = 0 THEN n \div 2 ELSE (n \div 2) + 1
        IN  /\ sync.last11_times = PresentTimes
            /\ \E i \in 1..n : PresentTimes[i] = ret.mtp
            /\ CountBelow(PresentTimes, ret.mtp) < k
            /\ CountAtMost(PresentTimes, ret.mtp) >= k

\* C30 (amended): the candidate is appended, the oldest entry dropped beyond
\* eleven, and the value returned is the entry at index floor(n / 2) of the
\* n present entries in ascending order: the middle value when n is odd and
\* the larger of the two middle values when n is even.
C30_MedianAfterPushUpperWhenEven ==
    (pc = "mtp" /\ hist.fed # << >>) =>
        LET n == Len(PresentTimes)
            k == (n \div 2) + 1
        IN  /\ sync.last11_times = PresentTimes
            /\ \E i \in 1..n : PresentTimes[i] = ret.mtp
            /\ CountBelow(PresentTimes, ret.mtp) < k
            /\ CountAtMost(PresentTimes, ret.mtp) >= k

\* an even number of entries fed out of order, whose two middle values
\* differ, the value returned being the larger of them and the candidate
C30_Witness ==
    /\ pc = "mtp"
    /\ Len(hist.fed) = 4
    /\ sync.last11_times = hist.fed
    /\ ~StrictlyIncreasing(hist.fed)
    /\ ret.mtp = hist.fed[Len(hist.fed)]
    /\ CountBelow(hist.fed, ret.mtp) = 2
    /\ CountAtMost(hist.fed, ret.mtp) = 3

\* the blocks whose samples were pushed since the buffers were last reset:
\* chain_start with its ancestors, and the headers accepted since in PRESYNC
\* or, once the switch has reset the buffers, in REDOWNLOAD
SampledChain ==
    LocalChain(sync.chain_start)
    \o [i \in 1..Len(IF hist.work_observed
                     THEN hist.redownload_accepted ELSE hist.presync_accepted) |->
          LET hdr == (IF hist.work_observed
                      THEN hist.redownload_accepted ELSE hist.presync_accepted)[i]
          IN  [nTime |-> hdr.nTime, nBits |-> hdr.nBits]]

\* the number of samples pushed since the last reset (the reset itself walks
\* at most N + 1 + MTP_SPAN blocks back from chain_start)
SamplesSinceReset ==
    Min(sync.chain_start + 1, ConsensusParams.nPowAveragingWindow + 1 + MTP_SPAN)
    + (Len(SampledChain) - (sync.chain_start + 1))

\* the sizes and the contents of recent_nbits, recent_mtp and the time history
\* against the blocks sampled since the last reset
BuffersHoldMostRecentSamples ==
    LET N     == ConsensusParams.nPowAveragingWindow
        chain == SampledChain
        top   == Len(chain) - 1
        m     == SamplesSinceReset
        nb    == Len(sync.recent_nbits)
        nm    == Len(sync.recent_mtp)
    IN  /\ nb <= N
        /\ nm <= N + 1
        /\ Len(sync.last11_times) <= MTP_SPAN
        /\ nb = Min(m, N)
        /\ nm = Min(m, N + 1)
        /\ Len(sync.last11_times) = Min(m, MTP_SPAN)
        /\ \A i \in 1..nb : sync.recent_nbits[i] = chain[top + 1 - nb + i].nBits
        /\ \A i \in 1..nm : sync.recent_mtp[i] = GetMedianTimePast(chain, top - nm + i)
        /\ \A i \in 1..Len(sync.last11_times) :
              sync.last11_times[i] = chain[top + 1 - Len(sync.last11_times) + i].nTime
        /\ nm = N + 1 =>
              /\ sync.recent_mtp[1] = GetMedianTimePast(chain, top - N)
              /\ sync.recent_mtp[nm] = GetMedianTimePast(chain, top)

\* C31: in every state |recent_bits| <= N, |recent_mtp| <= N+1 and the MTP
\* time history holds at most 11 entries; after m samples were pushed since the
\* last reset, |recent_bits| = min(m, N) and |recent_mtp| = min(m, N+1), and
\* they hold the bits and the MTPs of the most recent blocks in accepted order,
\* so that a full recent_mtp starts with the MTP of the block N positions
\* before the block of its last entry.
C31_RetargetBuffersHoldMostRecentSamples ==
    []BuffersHoldMostRecentSamples

\* on a chain_start with more ancestors than the reset walks over, the switch
\* has reset the buffers and two headers were accepted since: both buffers are
\* full, the reset's oldest samples are gone and the MTP has moved
C31_Witness ==
    /\ sync.chain_start = WindowChainStart
    /\ sync.download_state = "REDOWNLOAD"
    /\ pc = "idle"
    /\ Len(hist.redownload_accepted) = 2
    /\ SamplesSinceReset = ConsensusParams.nPowAveragingWindow + 1 + MTP_SPAN + 2
    /\ Len(sync.recent_nbits) = ConsensusParams.nPowAveragingWindow
    /\ Len(sync.recent_mtp) = ConsensusParams.nPowAveragingWindow + 1
    /\ sync.recent_nbits[2] = hist.redownload_accepted[2].nBits
    /\ sync.recent_mtp[1] < sync.recent_mtp[3]
    /\ sync.last11_times[MTP_SPAN] = hist.redownload_accepted[2].nTime

(***************************************************************************)
(* IsUpgrade8Enabled along a chain of consecutive blocks                   *)
(***************************************************************************)
\* largest upgrade8Height of the parameters, and the number of blocks the
\* chain grows beyond it
MaxUpgrade8Height == 8
BlocksPastUpgrade == 3

\* a chain that starts before its genesis block (pindexPrev == nullptr) or
\* at a block of any height up to the upgrade's
InitActivation ==
    /\ sync = NewHeadersSyncState(0, LocalChainWork(0), 0, 1, 1)
    /\ pc = "activation"
    /\ received_headers = << >>
    /\ full_headers_message = FALSE
    /\ pos = 0
    /\ ret = [enabled |-> FALSE]
    /\ \E upgrade8Height \in 0..MaxUpgrade8Height :
         \E pindexPrev \in {nullptr} \cup {BlockIndexAt(h) : h \in 0..upgrade8Height} :
            hist = [params |-> [upgrade8Height |-> upgrade8Height],
                    pindexPrev |-> pindexPrev,
                    tested |-> << >>, enabled |-> << >>]

\* IsUpgrade8Enabled(params, pindexPrev) for the block built on pindexPrev
IsUpgrade8EnabledCall ==
    /\ pc = "activation"
    /\ ret' = [enabled |-> IsUpgrade8Enabled(hist.params, hist.pindexPrev)]
    /\ hist' = [hist EXCEPT !.tested  = Append(@, hist.pindexPrev),
                            !.enabled = Append(@, IsUpgrade8Enabled(hist.params, hist.pindexPrev))]
    /\ pc' = "connect"
    /\ UNCHANGED << sync, received_headers, full_headers_message, pos >>

\* the block is connected: its index is the next pindexPrev
ConnectBlock ==
    /\ pc = "connect"
    /\ hist.pindexPrev.null
          \/ hist.pindexPrev.nHeight < hist.params.upgrade8Height + BlocksPastUpgrade
    /\ hist' = [hist EXCEPT !.pindexPrev =
                   IF @.null THEN BlockIndexAt(0) ELSE BlockIndexAt(@.nHeight + 1)]
    /\ pc' = "activation"
    /\ UNCHANGED << sync, received_headers, full_headers_message, pos, ret >>

NextActivation ==
    \/ IsUpgrade8EnabledCall
    \/ ConnectBlock

SpecActivation == InitActivation /\ [][NextActivation]_vars

\* C32: IsUpgrade8Enabled(params, pindexPrev) is false when pindexPrev is null
\* and otherwise true iff pindexPrev.height >= upgrade8Height; along a chain of
\* consecutive blocks it is false up to height upgrade8Height - 1 and true
\* from height upgrade8Height on, never turning false again.
C32_Upgrade8EnabledFromItsHeightOn ==
    \A i \in 1..Len(hist.tested) :
       /\ hist.tested[i].null => ~hist.enabled[i]
       /\ ~hist.tested[i].null =>
             (hist.enabled[i] <=> hist.tested[i].nHeight >= hist.params.upgrade8Height)
       /\ (~hist.tested[i].null /\ hist.tested[i].nHeight <= hist.params.upgrade8Height - 1)
             => ~hist.enabled[i]
       /\ \A j \in 1..(i - 1) : hist.enabled[j] => hist.enabled[i]

\* a chain tested from before its genesis block to beyond the upgrade: the
\* test was false at nullptr and at height upgrade8Height - 1 and true at
\* height upgrade8Height and after it
C32_Witness ==
    /\ pc = "connect"
    /\ hist.params.upgrade8Height >= 2
    /\ Len(hist.tested) = hist.params.upgrade8Height + BlocksPastUpgrade + 1
    /\ hist.tested[1].null
    /\ ~hist.enabled[1]
    /\ ~hist.enabled[hist.params.upgrade8Height + 1]
    /\ hist.tested[hist.params.upgrade8Height + 1] = BlockIndexAt(hist.params.upgrade8Height - 1)
    /\ hist.enabled[hist.params.upgrade8Height + 2]
    /\ ret.enabled

(***************************************************************************)
(* wallet/rpc/getauxrpc.cpp: ReservedKeysForMining and getauxblock         *)
(*                                                                         *)
(* sync holds g_mining_keys (data and the holder of cs), pc the position   *)
(* of every RPC thread in getauxblock, hist the request and the locals of  *)
(* every thread and the keypool of every wallet.                           *)
(***************************************************************************)
\* the RPC threads, the requests they serve in all, the keys a wallet's
\* keypool holds, and the blocks createAuxBlock builds on one script
RpcThreads == 2
MaxRequests == 4
KeypoolSize == 2
BlocksPerScript == 2

Threads == 1..RpcThreads
NoThread == 0

\* CWallet::GetName of the loaded wallets
WalletNames == {"w1", "w2"}

\* the k-th script a wallet's keypool hands out
ScriptOf(wallet, k) == << wallet, k >>

\* the hashes (in hex) getauxblock can be given: those of the blocks that can
\* have been built on the scripts handed out so far, and one of no block
UnknownHash == << "unknown" >>

AuxHashes(keys_taken) ==
    UNION { { << ScriptOf(w, k), v >> : k \in 1..keys_taken[w], v \in 1..BlocksPerScript }
            : w \in WalletNames }
    \cup { UnknownHash }

\* std::map<std::string, PerWallet> data: a wallet without an entry maps to NoEntry
NoEntry == [present |-> FALSE, coinbaseScript |-> << >>, blockHashes |-> {}]

PerWallet(scr) == [present |-> TRUE, coinbaseScript |-> scr, blockHashes |-> {}]

\* ReservedKeysForMining::GetCoinbaseScript: the script returned (thrown when
\* the keypool ran out), the data and the keys taken from the keypool after it
GetCoinbaseScript(data, wallet, keys_taken) ==
    IF data[wallet].present
    THEN [thrown |-> FALSE, script |-> data[wallet].coinbaseScript,
          data |-> data, keys_taken |-> keys_taken]
    ELSE IF keys_taken >= KeypoolSize
    THEN [thrown |-> TRUE, script |-> << >>, data |-> data, keys_taken |-> keys_taken]
    ELSE [thrown |-> FALSE, script |-> ScriptOf(wallet, keys_taken + 1),
          data |-> [data EXCEPT ![wallet] = PerWallet(ScriptOf(wallet, keys_taken + 1))],
          keys_taken |-> keys_taken + 1]

\* ReservedKeysForMining::AddBlockHash: whether the assertion holds, and the
\* data after it
AddBlockHash(data, wallet, hashHex) ==
    [asserted |-> data[wallet].present,
     data |-> IF data[wallet].present
              THEN [data EXCEPT ![wallet].blockHashes = @ \cup {hashHex}]
              ELSE data]

\* a submit that releases the key whatever hash it names
MarkBlockSubmitted_AnyHash(data, wallet, hashHex) ==
    IF ~data[wallet].present THEN data
    ELSE [data EXCEPT ![wallet] = NoEntry]

\* ReservedKeysForMining::MarkBlockSubmitted
MarkBlockSubmitted(data, wallet, hashHex) ==
    IF ~data[wallet].present THEN data
    ELSE IF hashHex \in data[wallet].blockHashes
    THEN [data EXCEPT ![wallet] = NoEntry]
    ELSE data

\* a lock that excludes nobody
MayLock_NoExclusion(cs, t) == cs = NoThread \/ cs # NoThread

\* LOCK(g_mining_keys.cs) on a RecursiveMutex: the thread may take it
MayLock(cs, t) == cs = NoThread \/ cs = t

NoRequest == [wallet |-> "w1", params |-> << >>]

InitAux ==
    /\ sync = [data |-> [w \in WalletNames |-> NoEntry], cs |-> NoThread]
    /\ pc = [t \in Threads |-> "idle"]
    /\ received_headers = << >>
    /\ full_headers_message = FALSE
    /\ pos = 0
    /\ ret = "none"
    /\ hist = [ started    |-> 0,
                request    |-> [t \in Threads |-> NoRequest],
                coinbaseScript |-> [t \in Threads |-> << >>],
                hash       |-> [t \in Threads |-> << >>],
                keys_taken |-> [w \in WalletNames |-> 0],
                assert_failed |-> FALSE ]

\* the handler returns or throws: the request and its locals are gone
EndRequest(h, t) ==
    [h EXCEPT !.request[t] = NoRequest, !.coinbaseScript[t] = << >>, !.hash[t] = << >>]

\* a getauxblock request reaches a thread: without arguments, or with a hash
\* and an auxpow
BeginRequest(t) ==
    /\ pc[t] = "idle"
    /\ hist.started < MaxRequests
    /\ \E wallet \in WalletNames, params \in {<< >>} \cup {<< h >> : h \in AuxHashes(hist.keys_taken)} :
          hist' = [hist EXCEPT !.started = @ + 1,
                               !.request[t] = [wallet |-> wallet, params |-> params]]
    /\ pc' = [pc EXCEPT ![t] = "lock"]
    /\ UNCHANGED << sync, received_headers, full_headers_message, pos, ret >>

\* LOCK(g_mining_keys.cs)
Lock(t) ==
    /\ pc[t] = "lock"
    /\ MayLock(sync.cs, t)
    /\ sync' = [sync EXCEPT !.cs = t]
    /\ pc' = [pc EXCEPT ![t] = IF hist.request[t].params = << >>
                                THEN "get_script" ELSE "submit"]
    /\ UNCHANGED << received_headers, full_headers_message, pos, ret, hist >>

\* g_mining_keys.GetCoinbaseScript(pwallet); the exception leaves the handler
\* and releases the lock
GetCoinbaseScriptCall(t) ==
    /\ pc[t] = "get_script"
    /\ LET wallet == hist.request[t].wallet
           r == GetCoinbaseScript(sync.data, wallet, hist.keys_taken[wallet])
       IN  IF r.thrown
           THEN /\ sync' = [sync EXCEPT !.cs = NoThread]
                /\ pc' = [pc EXCEPT ![t] = "idle"]
                /\ ret' = "error"
                /\ hist' = EndRequest(hist, t)
           ELSE /\ sync' = [sync EXCEPT !.data = r.data]
                /\ pc' = [pc EXCEPT ![t] = "create_block"]
                /\ hist' = [hist EXCEPT !.coinbaseScript[t] = r.script,
                                        !.keys_taken[wallet] = r.keys_taken]
                /\ UNCHANGED ret
    /\ UNCHANGED << received_headers, full_headers_message, pos >>

\* AuxpowMiner::createAuxBlock(request, coinbaseScript): a block on the script,
\* or an exception
CreateAuxBlockCall(t) ==
    /\ pc[t] = "create_block"
    /\ \/ /\ \E v \in 1..BlocksPerScript :
               hist' = [hist EXCEPT !.hash[t] = << hist.coinbaseScript[t], v >>]
          /\ pc' = [pc EXCEPT ![t] = "add_hash"]
          /\ UNCHANGED << sync, ret >>
       \/ /\ sync' = [sync EXCEPT !.cs = NoThread]
          /\ pc' = [pc EXCEPT ![t] = "idle"]
          /\ ret' = "error"
          /\ hist' = EndRequest(hist, t)
    /\ UNCHANGED << received_headers, full_headers_message, pos >>

\* g_mining_keys.AddBlockHash(pwallet, res["hash"]); return res
AddBlockHashCall(t) ==
    /\ pc[t] = "add_hash"
    /\ LET r == AddBlockHash(sync.data, hist.request[t].wallet, hist.hash[t])
       IN  /\ sync' = [sync EXCEPT !.data = r.data, !.cs = NoThread]
           /\ hist' = [EndRequest(hist, t) EXCEPT !.assert_failed = @ \/ ~r.asserted]
           /\ ret' = IF r.asserted THEN "block" ELSE "abort"
    /\ pc' = [pc EXCEPT ![t] = "idle"]
    /\ UNCHANGED << received_headers, full_headers_message, pos >>

\* AuxpowMiner::submitAuxBlock(request, hash, auxpow): fAccepted
SubmitAuxBlockCall(t) ==
    /\ pc[t] = "submit"
    /\ \E fAccepted \in BOOLEAN :
          IF fAccepted
          THEN /\ pc' = [pc EXCEPT ![t] = "mark_submitted"]
               /\ UNCHANGED << sync, ret, hist >>
          ELSE /\ sync' = [sync EXCEPT !.cs = NoThread]
               /\ pc' = [pc EXCEPT ![t] = "idle"]
               /\ ret' = "false"
               /\ hist' = EndRequest(hist, t)
    /\ UNCHANGED << received_headers, full_headers_message, pos >>

\* g_mining_keys.MarkBlockSubmitted(pwallet, hash); return fAccepted
MarkBlockSubmittedCall(t) ==
    /\ pc[t] = "mark_submitted"
    /\ sync' = [sync EXCEPT
                  !.data = MarkBlockSubmitted(@, hist.request[t].wallet,
                                              hist.request[t].params[1]),
                  !.cs = NoThread]
    /\ pc' = [pc EXCEPT ![t] = "idle"]
    /\ ret' = "true"
    /\ hist' = EndRequest(hist, t)
    /\ UNCHANGED << received_headers, full_headers_message, pos >>

NextAux ==
    \/ \E t \in Threads : BeginRequest(t)
    \/ \E t \in Threads : Lock(t)
    \/ \E t \in Threads : GetCoinbaseScriptCall(t)
    \/ \E t \in Threads : CreateAuxBlockCall(t)
    \/ \E t \in Threads : AddBlockHashCall(t)
    \/ \E t \in Threads : SubmitAuxBlockCall(t)
    \/ \E t \in Threads : MarkBlockSubmittedCall(t)

SpecAux == InitAux /\ [][NextAux]_vars

\* the scripts a wallet's keypool has handed out so far
ScriptsHandedOut(wallet) ==
    { ScriptOf(wallet, k) : k \in 1..hist.keys_taken[wallet] }

\* thread t takes the step of getauxblock that leads from one position to another
Steps(t, from, to) ==
    pc[t] = from /\ pc'[t] = to

\* C33: for one wallet name, every create request (GetCoinbaseScript) returns
\* the same coinbase script until a submit is accepted for a block hash that
\* was registered with AddBlockHash for that script; only then is the entry
\* erased, so that the next create request reserves a fresh script;
\* MarkBlockSubmitted with a hash that was not registered for the current
\* script, or for an unknown wallet, changes nothing.
C33_ScriptReusedUntilRegisteredHashSubmitted ==
    [][\A w \in WalletNames :
         /\ \A t \in Threads :
               (Steps(t, "get_script", "create_block") /\ hist.request[t].wallet = w) =>
                  IF sync.data[w].present
                  THEN /\ hist'.coinbaseScript[t] = sync.data[w].coinbaseScript
                       /\ sync'.data = sync.data
                  ELSE /\ hist'.coinbaseScript[t] \notin ScriptsHandedOut(w)
                       /\ sync'.data[w] = PerWallet(hist'.coinbaseScript[t])
         /\ (sync.data[w].present /\ sync'.data[w].present) =>
               /\ sync'.data[w].coinbaseScript = sync.data[w].coinbaseScript
               /\ sync.data[w].blockHashes \subseteq sync'.data[w].blockHashes
         /\ (sync.data[w].present /\ ~sync'.data[w].present) =>
               \E t \in Threads :
                  /\ Steps(t, "mark_submitted", "idle")
                  /\ hist.request[t].wallet = w
                  /\ hist.request[t].params[1] \in sync.data[w].blockHashes
         /\ \A t \in Threads :
               (Steps(t, "mark_submitted", "idle") /\ hist.request[t].wallet = w) =>
                  IF sync.data[w].present
                       /\ hist.request[t].params[1] \in sync.data[w].blockHashes
                  THEN sync'.data = [sync.data EXCEPT ![w] = NoEntry]
                  ELSE sync'.data = sync.data
         /\ \A t \in Threads :
               (Steps(t, "add_hash", "idle") /\ hist.request[t].wallet = w
                   /\ sync.data[w].present) =>
                  /\ hist.hash[t] \in sync'.data[w].blockHashes
                  /\ sync'.data[w].coinbaseScript = hist.coinbaseScript[t]
      ]_vars

\* a create request has reserved the last script of a wallet's keypool, each
\* script before it having been released by an accepted submit of a hash
\* registered for it, the last return of getauxblock being such a submit
C33_Witness ==
    /\ \E t \in Threads :
          /\ pc[t] = "create_block"
          /\ hist.request[t].wallet = "w1"
          /\ hist.coinbaseScript[t] = ScriptOf("w1", KeypoolSize)
    /\ sync.data["w1"] = PerWallet(ScriptOf("w1", KeypoolSize))
    /\ hist.keys_taken["w1"] = KeypoolSize
    /\ ret = "true"

\* C40: under any interleaving of concurrent getauxblock requests (create and
\* submit, for the same or different wallets), the assertion in AddBlockHash
\* that the wallet's entry exists never fails: the instance lock is held from
\* before GetCoinbaseScript until after AddBlockHash, so no submit can erase
\* the entry in between.
C40_AddBlockHashAssertionNeverFails ==
    /\ ~hist.assert_failed
    /\ \A t \in Threads :
          pc[t] \in {"get_script", "create_block", "add_hash", "submit", "mark_submitted"}
             => sync.cs = t
    /\ \A t \in Threads :
          pc[t] \in {"create_block", "add_hash"} =>
             /\ sync.data[hist.request[t].wallet].present
             /\ sync.data[hist.request[t].wallet].coinbaseScript = hist.coinbaseScript[t]

\* one thread is about to call AddBlockHash while another, with a submit for
\* a hash registered in the same wallet's entry, waits for the lock
C40_Witness ==
    \E t \in Threads, u \in Threads :
       /\ pc[t] = "add_hash"
       /\ pc[u] = "lock"
       /\ hist.request[u].wallet = hist.request[t].wallet
       /\ hist.request[u].params # << >>
       /\ hist.request[u].params[1] \in sync.data[hist.request[t].wallet].blockHashes
       /\ sync.cs = t

\* the instance as its constructor left it
AsConstructed ==
    NewHeadersSyncState(sync.chain_start, sync.minimum_required_work,
                        sync.commit_offset, sync.salt, sync.max_commitments)

\* C34: the call that switches from PRESYNC to REDOWNLOAD resets the redownload
\* cursor and nothing else of the PRESYNC result: afterwards
\* redownloaded_headers is empty, redownload_buffer_last_height is
\* chain_start's height, redownload_buffer_first_prev_hash and
\* redownload_buffer_last_hash are chain_start's hash, redownload_chain_work is
\* chain_start's chain work, and recent_bits, recent_mtp and the MTP history
\* equal their contents right after construction; header_commitments,
\* current_chain_work and commit_offset are unchanged by the switch.
C34_SwitchResetsOnlyTheRedownloadCursor ==
    [][(sync.download_state = "PRESYNC" /\ sync'.download_state = "REDOWNLOAD") =>
         /\ sync'.redownloaded_headers = << >>
         /\ sync'.redownload_buffer_last_height = sync.chain_start
         /\ sync'.redownload_buffer_first_prev_hash = GetBlockHash(sync.chain_start)
         /\ sync'.redownload_buffer_last_hash = GetBlockHash(sync.chain_start)
         /\ sync'.redownload_chain_work = LocalChainWork(sync.chain_start)
         /\ sync'.recent_nbits = AsConstructed.recent_nbits
         /\ sync'.recent_mtp = AsConstructed.recent_mtp
         /\ sync'.last11_times = AsConstructed.last11_times
         /\ sync'.header_commitments = sync.header_commitments
         /\ sync'.current_chain_work = sync.current_chain_work
         /\ sync'.commit_offset = sync.commit_offset
         /\ sync'.last_header_received = sync.last_header_received
         /\ sync'.current_height = sync.current_height
         /\ sync'.process_all_remaining_headers = sync.process_all_remaining_headers
         /\ sync'.chain_start = sync.chain_start
         /\ sync'.minimum_required_work = sync.minimum_required_work
         /\ sync'.max_commitments = sync.max_commitments
         /\ sync'.salt = sync.salt
      ]_vars

\* the call that switched is about to return: the commitments and the work of
\* PRESYNC are there, the cursor is at chain_start, and the retarget buffers
\* end with chain_start's sample and not with the last presynced header's
C34_Witness ==
    /\ pc = "return"
    /\ hist.entry_state = "PRESYNC"
    /\ sync.download_state = "REDOWNLOAD"
    /\ sync.chain_start = WindowChainStart
    /\ sync.header_commitments # << >>
    /\ sync.current_chain_work > sync.redownload_chain_work
    /\ sync.current_height > sync.redownload_buffer_last_height
    /\ sync.last11_times[Len(sync.last11_times)] = LocalTime(sync.chain_start)
    /\ sync.last11_times[Len(sync.last11_times)] # sync.last_header_received.nTime
    /\ sync.recent_mtp = AsConstructed.recent_mtp

(***************************************************************************)
(* GetNextWorkRequired along a chain                                       *)
(*                                                                         *)
(* A chain is the sequence of the nTime and nBits of its blocks, genesis   *)
(* first; pindexLast is its last block, of height Len(chain) - 1.  Every   *)
(* block connected carries the bits GetNextWorkRequired asks for.          *)
(***************************************************************************)
\* the height of the last block the chain grows to
MaxChainHeight == 7

\* the index of the block of a height, as CalculateNextWorkRequiredOld reads it
BlockIndexOf(chain, height) ==
    [nHeight |-> height, nTime |-> chain[height + 1].nTime, nBits |-> chain[height + 1].nBits]

\* the loop of pow.cpp:61-65: back over the min-difficulty blocks of the interval
RECURSIVE LastNonMinDifficultyBits(_, _, _)
LastNonMinDifficultyBits(chain, height, params) ==
    IF /\ height > 0
       /\ height % DifficultyAdjustmentInterval(params) # 0
       /\ chain[height + 1].nBits = GetCompact(params.powLimit)
    THEN LastNonMinDifficultyBits(chain, height - 1, params)
    ELSE chain[height + 1].nBits

\* a first retarget that goes back the full interval as every other does
HeightFirst_FullPeriod(nHeight, params) ==
    nHeight - DifficultyAdjustmentInterval(params)

\* nHeightFirst of GetNextWorkRequiredOld (pow.cpp:76-92)
HeightFirst(nHeight, params) ==
    LET blockstogoback == IF nHeight + 1 # DifficultyAdjustmentInterval(params)
                          THEN DifficultyAdjustmentInterval(params)
                          ELSE DifficultyAdjustmentInterval(params) - 1
    IN  nHeight - blockstogoback

\* GetNextWorkRequiredOld(pindexLast, pblock, params) for the block after the
\* last block of a chain; its assertions hold on the chains of the model
GetNextWorkRequiredOld(chain, block_time, params) ==
    LET nProofOfWorkLimit == GetCompact(params.powLimit)
        last == Len(chain) - 1
    IN  IF (last + 1) % DifficultyAdjustmentInterval(params) # 0
        THEN IF params.fPowAllowMinDifficultyBlocks
             THEN IF block_time > chain[last + 1].nTime + PoWTargetSpacing(params) * 4
                  THEN nProofOfWorkLimit
                  ELSE LastNonMinDifficultyBits(chain, last, params)
             ELSE chain[last + 1].nBits
        ELSE CalculateNextWorkRequiredOld(
                BlockIndexOf(chain, last),
                chain[Max(0, HeightFirst(last, params)) + 1].nTime, params)

\* GetNextWorkRequired(pindexLast, pblock, params)
GetNextWorkRequired(chain, block_time, params) ==
    IF Len(chain) - 1 <= params.nNewPowDiffHeight
    THEN GetNextWorkRequiredOld(chain, block_time, params)
    ELSE GetNextWorkRequiredNew(chain, block_time, params)

\* parameters whose legacy rule lasts for some intervals, with intervals of
\* two and of three blocks, with and without the testnet rule
LegacyParams ==
    { [ConsensusParams EXCEPT !.nNewPowDiffHeight = 4,
                              !.nPowTargetTimespan = timespan,
                              !.fPowAllowMinDifficultyBlocks = allow]
        : timespan \in {20, 30}, allow \in BOOLEAN }

\* the time between a block and the next one
BlockTimeSteps == {2, 10, 45}

InitChain ==
    /\ sync = NewHeadersSyncState(0, LocalChainWork(0), 0, 1, 1)
    /\ pc = "chain"
    /\ received_headers = << >>
    /\ full_headers_message = FALSE
    /\ pos = 0
    /\ ret = [nBits |-> 0]
    /\ \E params \in LegacyParams :
          hist = [params |-> params,
                  chain  |-> << [nTime |-> LocalTime(0),
                                 nBits |-> GetCompact(params.powLimit)] >>]

\* a block with the required bits is connected to the chain
ConnectNextBlock ==
    /\ pc = "chain"
    /\ Len(hist.chain) - 1 < MaxChainHeight
    /\ \E step \in BlockTimeSteps :
          LET block_time == hist.chain[Len(hist.chain)].nTime + step
              nBits == GetNextWorkRequired(hist.chain, block_time, hist.params)
          IN  /\ ret' = [nBits |-> nBits]
              /\ hist' = [hist EXCEPT !.chain = Append(@, [nTime |-> block_time, nBits |-> nBits])]
    /\ UNCHANGED << sync, pc, received_headers, full_headers_message, pos >>

NextChain == ConnectNextBlock

SpecChain == InitChain /\ [][NextChain]_vars

\* the chain below the block of a height
ChainBelow(height) == SubSeq(hist.chain, 1, height)

\* C35: GetNextWorkRequired computes the required work of a block with the
\* legacy rule iff that block's height is at or below new_pow_diff_height, and
\* with the sliding-window rule for every block above new_pow_diff_height.
C35_LegacyRuleUpToNewPowDiffHeight ==
    pc = "chain" =>
       \A height \in 1..(Len(hist.chain) - 1) :
          hist.chain[height + 1].nBits =
             IF height <= hist.params.nNewPowDiffHeight
             THEN GetNextWorkRequiredOld(ChainBelow(height), hist.chain[height + 1].nTime, hist.params)
             ELSE GetNextWorkRequiredNew(ChainBelow(height), hist.chain[height + 1].nTime, hist.params)

\* the times a block on top of the block of a height may carry
NextBlockTimes(height) ==
    { hist.chain[height + 1].nTime + step : step \in BlockTimeSteps }

\* C36: GetNextWorkRequiredOld changes the difficulty only once per adjustment
\* interval: when (pindexLast.height + 1) % interval != 0 and
\* pow_allow_min_difficulty_blocks is false it returns pindexLast.bits
\* unchanged; on a boundary it retargets from the time of the ancestor interval
\* blocks before pindexLast, except at the first retarget after genesis
\* (pindexLast.height + 1 == interval) where it goes back interval - 1 blocks,
\* and the ancestor height is never negative.  pindexLast is the tip of the
\* chain built so far, so every block of every chain is a pindexLast once.
C36_LegacyRetargetsOncePerInterval ==
    pc = "chain" =>
       \A block_time \in NextBlockTimes(Len(hist.chain) - 1) :
          LET last     == Len(hist.chain) - 1
              interval == DifficultyAdjustmentInterval(hist.params)
              required == GetNextWorkRequiredOld(ChainBelow(last + 1), block_time, hist.params)
              first    == IF last + 1 = interval THEN last - (interval - 1)
                          ELSE last - interval
          IN  /\ ((last + 1) % interval # 0 /\ ~hist.params.fPowAllowMinDifficultyBlocks)
                    => required = hist.chain[last + 1].nBits
              /\ (last + 1) % interval = 0 =>
                    /\ first >= 0
                    /\ HeightFirst(last, hist.params) = first
                    /\ required = CalculateNextWorkRequiredOld(
                                     BlockIndexOf(hist.chain, last),
                                     hist.chain[first + 1].nTime, hist.params)

\* a chain with intervals of two blocks: the first retarget, from genesis, and
\* the second, from the block two below pindexLast, both changed the bits, and
\* the block between them kept the bits of its predecessor
C36_Witness ==
    /\ pc = "chain"
    /\ ~hist.params.fPowAllowMinDifficultyBlocks
    /\ DifficultyAdjustmentInterval(hist.params) = 2
    /\ Len(hist.chain) = 5
    /\ hist.chain[2].nBits = hist.chain[1].nBits
    /\ hist.chain[3].nBits # hist.chain[2].nBits
    /\ hist.chain[4].nBits = hist.chain[3].nBits
    /\ hist.chain[5].nBits # hist.chain[4].nBits
    /\ hist.chain[5].nBits = CalculateNextWorkRequiredOld(
                                BlockIndexOf(hist.chain, 3), hist.chain[2].nTime, hist.params)
    /\ hist.chain[5].nBits # CalculateNextWorkRequiredOld(
                                BlockIndexOf(hist.chain, 3), hist.chain[3].nTime, hist.params)


(***************************************************************************)
(* REDOWNLOAD past the end of PRESYNC                                      *)
(*                                                                         *)
(* The instance asks for more work than SpecWindow's, so that the peer     *)
(* can replay chains of less work that are longer than the chain it        *)
(* presynced; every headers message carries one header.                    *)
(***************************************************************************)
\* the number of headers a peer sends to one instance
StretchMaxHeaders == 8

\* the connected headers of PeerHeaders
ConnectedPeerHeaders(prev_hash, prev_time) ==
    { h \in PeerHeaders(prev_hash, prev_time) : h.hashPrevBlock = prev_hash }

\* the work threshold: the work of six pow-limit headers above chain_start's
InitStretch ==
    /\ \E commit_offset \in 0..(HEADER_COMMITMENT_PERIOD - 1) :
          sync = NewHeadersSyncState(ChainStartHeight,
                    LocalChainWork(ChainStartHeight)
                        + 6 * GetBlockProof(LocalBits(ChainStartHeight)),
                    commit_offset, 1, StretchMaxHeaders)
    /\ pc = "idle"
    /\ received_headers = << >>
    /\ full_headers_message = FALSE
    /\ pos = 0
    /\ ret = DefaultResult
    /\ hist = [ entry_state |-> "NONE", batch_empty |-> FALSE, delivered |-> 0,
                presync_accepted |-> << >>, presync_first |-> << >>,
                redownload_accepted |-> << >>, released |-> << >>,
                pushed |-> << >>, popped |-> << >>, work_observed |-> FALSE,
                presync_headers |-> 0, peak_commitments |-> 0,
                assume_failed |-> FALSE ]

\* a call of ProcessNextHeaders in PRESYNC with a full message of one
\* connected header
CallPresyncStretch ==
    /\ pc = "idle"
    /\ sync.download_state = "PRESYNC"
    /\ hist.delivered < StretchMaxHeaders
    /\ \E hdr \in ConnectedPeerHeaders(HeadHash, HeadTime) :
         /\ received_headers' = << hdr >>
         /\ full_headers_message' = TRUE
         /\ hist' = [hist EXCEPT !.entry_state = "PRESYNC",
                                 !.batch_empty = FALSE,
                                 !.assume_failed = FALSE,
                                 !.delivered = @ + 1]
    /\ ret' = DefaultResult
    /\ pc' = "presync"
    /\ pos' = 1
    /\ UNCHANGED sync

\* a call of ProcessNextHeaders in REDOWNLOAD with a message of one header
CallRedownloadStretch ==
    /\ pc = "idle"
    /\ sync.download_state = "REDOWNLOAD"
    /\ hist.delivered < StretchMaxHeaders
    /\ \E hdr \in PeerHeaders(HeadHash, HeadTime), full \in FullFlags :
         /\ received_headers' = << hdr >>
         /\ full_headers_message' = full
         /\ hist' = [hist EXCEPT !.entry_state = "REDOWNLOAD",
                                 !.batch_empty = FALSE,
                                 !.assume_failed = FALSE,
                                 !.delivered = @ + 1]
    /\ ret' = [DefaultResult EXCEPT !.success = TRUE]
    /\ pc' = "redownload"
    /\ pos' = 1
    /\ UNCHANGED sync

NextStretch ==
    \/ CallPresyncStretch
    \/ PresyncHeader
    \/ PresyncEnd
    \/ CallRedownloadStretch
    \/ RedownloadHeader
    \/ RedownloadEnd
    \/ Return

SpecStretch == InitStretch /\ [][NextStretch]_vars

\* Hp: the height PRESYNC ended at
PresyncEndHeight == sync.chain_start + Len(hist.presync_accepted)

\* the first height above h at which a commitment is due
FirstCommitmentHeightAbove(h) ==
    CHOOSE c \in (h + 1)..(h + HEADER_COMMITMENT_PERIOD) :
        c % HEADER_COMMITMENT_PERIOD = sync.commit_offset

\* the redownloaded chain never reached the work threshold
RedownloadWorkNeverReached ==
    \A j \in 0..Len(hist.redownload_accepted) :
        RedownloadWorkAfter(j) < sync.minimum_required_work

\* no more headers were accepted in REDOWNLOAD than PRESYNC allows
RedownloadNotStretched ==
    (hist.work_observed /\ RedownloadWorkNeverReached)
        => Len(hist.redownload_accepted)
              <= Len(hist.presync_accepted) + HEADER_COMMITMENT_PERIOD - 1

\* the REDOWNLOAD loop is at the header of the first commitment height above
\* Hp, and the work with that header stays below the threshold
AtFirstCommitmentHeightAbovePresync ==
    /\ pc = "redownload"
    /\ sync.redownload_buffer_last_height + 1 = FirstCommitmentHeightAbove(PresyncEndHeight)
    /\ ~sync.process_all_remaining_headers
    /\ (sync.redownload_chain_work + GetBlockProof(received_headers[pos].nBits)) % UintMod
          < sync.minimum_required_work

\* C37: a peer cannot stretch REDOWNLOAD beyond what it presynced: if PRESYNC
\* ended at height Hp and redownload_chain_work never reaches
\* minimum_required_work, the header at the first commitment height above Hp
\* finds no commitment left and is rejected, so at most
\* (Hp - chain_start.height) + HEADER_COMMITMENT_PERIOD - 1 headers are ever
\* accepted in REDOWNLOAD before the instance is FINAL.
C37_RedownloadNotStretchedBeyondPresync ==
    [][ /\ AtFirstCommitmentHeightAbovePresync =>
             /\ sync.header_commitments = << >>
             /\ pc' = "return"
             /\ ~ret'.success
             /\ hist'.redownload_accepted = hist.redownload_accepted
        /\ RedownloadNotStretched' ]_vars

\* the call that fails on the commitment overrun: the header connects to the
\* buffer and its difficulty is permitted, so its work was added, yet it was
\* not stored; every commitment of PRESYNC was popped by the headers before it
C37_Witness ==
    /\ pc = "return"
    /\ hist.entry_state = "REDOWNLOAD"
    /\ ~ret.success
    /\ pos = 1
    /\ sync.redownloaded_headers # << >>
    /\ received_headers[pos].hashPrevBlock = sync.redownload_buffer_last_hash
    /\ sync.redownload_buffer_last_height + 1 = FirstCommitmentHeightAbove(PresyncEndHeight)
    /\ sync.redownload_buffer_last_height >= PresyncEndHeight
    /\ ~sync.process_all_remaining_headers
    /\ sync.redownload_chain_work
          = RedownloadWorkAfter(Len(hist.redownload_accepted))
               + GetBlockProof(received_headers[pos].nBits)
    /\ sync.redownload_chain_work < sync.minimum_required_work
    /\ sync.header_commitments = << >>
    /\ Len(hist.popped) = Len(hist.pushed)
    /\ Len(hist.pushed) >= 1
    /\ Len(hist.redownload_accepted) >= Len(hist.presync_accepted)


\* C38: header accounting in REDOWNLOAD: whenever ProcessNextHeaders has
\* returned and the instance is still in REDOWNLOAD,
\* redownload_buffer_last_height - chain_start.height equals the number of
\* headers released so far plus |redownloaded_headers|,
\* redownload_buffer_last_hash is the hash of the last buffered header, and the
\* buffer is empty only before the first header was accepted, so that
\* chain_start's bits and time are the predecessor of the first redownloaded
\* header only.
RedownloadAccounting ==
    sync.download_state = "REDOWNLOAD" =>
       LET buffered == Len(sync.redownloaded_headers)
           accepted == Len(hist.redownload_accepted)
       IN  /\ pc = "idle" =>
                /\ sync.redownload_buffer_last_height - sync.chain_start
                      = Len(hist.released) + buffered
                /\ buffered > 0 =>
                      /\ sync.redownload_buffer_last_hash
                            = GetHash(hist.redownload_accepted[accepted])
                      /\ sync.redownloaded_headers[buffered]
                            = CompressedHeader(hist.redownload_accepted[accepted])
                /\ (buffered = 0) <=> (accepted = 0)
           /\ (pc = "redownload" /\ buffered = 0) => accepted = 0

C38_RedownloadAccounting == []RedownloadAccounting

\* between two calls in REDOWNLOAD, with a header released and one buffered
C38_Witness ==
    /\ pc = "idle"
    /\ sync.download_state = "REDOWNLOAD"
    /\ Len(hist.released) >= 1
    /\ Len(sync.redownloaded_headers) >= 1
    /\ ~sync.process_all_remaining_headers
    /\ sync.redownload_buffer_last_height - sync.chain_start
          = Len(hist.released) + Len(sync.redownloaded_headers)
    /\ sync.redownload_buffer_last_hash
          = GetHash(hist.redownload_accepted[Len(hist.redownload_accepted)])


(***************************************************************************)
(* A driver that keeps to the calling convention                           *)
(*                                                                         *)
(* Every call of ProcessNextHeaders carries a non-empty batch, and no call *)
(* follows a result with success = false or request_more = false; the      *)
(* driver does not call Finalize itself.                                   *)
(***************************************************************************)
NextDriver ==
    \/ CallPresync
    \/ PresyncHeader
    \/ PresyncEnd
    \/ CallRedownload
    \/ RedownloadHeader
    \/ RedownloadEnd
    \/ Return

SpecDriver == Init /\ [][NextDriver]_vars

\* the driver may call ProcessNextHeaders: no call was made yet, or the last
\* result asked for more
DriverMayCall ==
    /\ pc = "idle"
    /\ hist.entry_state = "NONE" \/ (ret.success /\ ret.request_more)

\* the Assume(...) checks the control is at or about to reach hold
AssumeChecksHold ==
    /\ DriverMayCall => sync.download_state # "FINAL"
    /\ pc = "presync" =>
          /\ received_headers # << >>
          /\ sync.download_state = "PRESYNC"
    /\ pc = "presync_end" => sync.download_state = "PRESYNC"
    /\ (pc = "return" /\ hist.entry_state = "PRESYNC" /\ ret.success /\ ~ret.request_more)
          => sync.download_state = "PRESYNC"
    /\ pc \in {"redownload", "redownload_end"} =>
          /\ received_headers # << >>
          /\ sync.download_state = "REDOWNLOAD"
    /\ (pc = "return" /\ ShouldFinalize(ret)) => sync.download_state # "FINAL"
    /\ ~hist.assume_failed

\* C39: for every sequence of ProcessNextHeaders calls with non-empty batches
\* in which the driver makes no further call once a result had success = false
\* or request_more = false, none of the Assume consistency checks of the sync
\* engine fails: the phase is PRESYNC in every presync helper, REDOWNLOAD in
\* every redownload helper and in PopHeadersReadyForAcceptance, and not FINAL
\* on entry to Finalize (nor on entry to ProcessNextHeaders).
C39_NoAssumeFailsUnderCallingConvention == []AssumeChecksHold

\* a sync that went through both phases under the convention and ended with
\* the release of every header: the last call returned success without
\* request_more and finalized the instance
C39_Witness ==
    /\ pc = "idle"
    /\ sync.download_state = "FINAL"
    /\ hist.entry_state = "REDOWNLOAD"
    /\ ret.success
    /\ ~ret.request_more
    /\ ~DriverMayCall
    /\ hist.released # << >>
    /\ Len(hist.released) = Len(hist.redownload_accepted)

====
